---- MODULE Spec2Model ----
(***************************************************************************)
(* ExpressAuthGateway: the authentication controller (login, forgot,       *)
(* password, operator, invite, welcome, init), the database service it     *)
(* calls, the passport local strategy and the schema that init_tables.js   *)
(* creates, as a state machine over the three tables.                      *)
(*                                                                         *)
(* A request is a record in a slot; one action is one stretch of a handler *)
(* between two suspension points (a database round trip, a bcrypt call, a  *)
(* mail call).  Strings whose characters matter (emails, passwords) are    *)
(* tuples of one-character strings.                                        *)
(***************************************************************************)
EXTENDS Integers, Sequences, FiniteSets, TLC

(***************************************************************************)
(* Bounds of the exploration.                                              *)
(***************************************************************************)
MaxSlots == 2
MaxFaults == 1
\* The requests of each kind a behaviour of Spec may hold.
MaxEach == 1
\* The same for SpecReset (forgot, password and the clock) ...
MaxForgot == 2
MaxPassword == 2
MaxTime == 3
\* ... and for SpecInvite (login, invite, welcome, init).
MaxLogin == 2
MaxInvite == 2
MaxWelcome == 1
MaxInit == 2
\* SpecSession: logout and probe requests
MaxLogout == 2
MaxProbe == 1
\* SpecLogin: login requests
MaxLogins == 3
\* SpecPassword: a password is up to MaxCore free characters followed by up to
\* MaxPad repetitions of one character
MaxCore == 3
MaxPad == 21
\* SpecEmail: the longest email address that is validated
MaxEmailLen == 6

(***************************************************************************)
(* Program constants.  One clock unit is half an hour, so the literal      *)
(* INTERVAL '1 HOUR' is two units and the boundary age is a reachable      *)
(* clock value.                                                            *)
(***************************************************************************)
Hour == 2
saltRounds == 10
\* app.js: cookie.maxAge, in the unit of Hour
oneDay == 24 * Hour


(***************************************************************************)
(* Character classes of the regular expressions in validation_service.js.  *)
(***************************************************************************)
Lower == {"a","b","c","d","e","f","g","h","i","j","k","l","m",
          "n","o","p","q","r","s","t","u","v","w","x","y","z"}
Upper == {"A","B","C","D","E","F","G","H","I","J","K","L","M",
          "N","O","P","Q","R","S","T","U","V","W","X","Y","Z"}
Digit == {"0","1","2","3","4","5","6","7","8","9"}
Special == {"!","@","#","$","%","^","&","*","(",")","_","+","-","=",
            "[","]","{","}",";",":",",",".","?"}

containsLowercase(value) == \E i \in DOMAIN value : value[i] \in Lower
containsUppercase(value) == \E i \in DOMAIN value : value[i] \in Upper
containsNumber(value) == \E i \in DOMAIN value : value[i] \in Digit
onlyAllowedChars(value) ==
    ~ \E i \in DOMAIN value : value[i] \notin (Lower \cup Upper \cup Digit \cup {" "} \cup Special)
containsSpecialChar(value) == \E i \in DOMAIN value : value[i] \in Special
atLeastEightCharacters(value) == Len(value) >= 8
\* The upper bound as an exclusive one.
atMostTwentyCharactersExclusive(value) == Len(value) < 20
atMostTwentyCharacters(value) == Len(value) <= 20
atLeastFiveCharactersOperator(value) == Len(value) >= 5
atMostTwentyCharactersOperator(value) == Len(value) <= 20

validatePassword(password) ==
    /\ containsLowercase(password)
    /\ containsUppercase(password)
    /\ containsNumber(password)
    /\ containsSpecialChar(password)
    /\ onlyAllowedChars(password)
    /\ atLeastEightCharacters(password)
    /\ atMostTwentyCharacters(password)

validateOperator(operator) ==
    /\ atLeastFiveCharactersOperator(operator)
    /\ atMostTwentyCharactersOperator(operator)

(***************************************************************************)
(* isValidEmail: String.split("@") keeps the text before the first "@" as  *)
(* parts[0] and the text between the first and the second "@" as parts[1]. *)
(***************************************************************************)
Includes(s, c) == \E i \in DOMAIN s : s[i] = c
IndexesOf(s, c) == {i \in DOMAIN s : s[i] = c}
FirstIndexOf(s, c) == CHOOSE i \in IndexesOf(s, c) : \A j \in IndexesOf(s, c) : i <= j
LastIndexOf(s, c) == CHOOSE i \in IndexesOf(s, c) : \A j \in IndexesOf(s, c) : j <= i
LocalPartOf(email) == SubSeq(email, 1, FirstIndexOf(email, "@") - 1)
AfterFirstAt(email) == SubSeq(email, FirstIndexOf(email, "@") + 1, Len(email))
DomainPartOf(email) ==
    IF Includes(AfterFirstAt(email), "@")
    THEN SubSeq(AfterFirstAt(email), 1, FirstIndexOf(AfterFirstAt(email), "@") - 1)
    ELSE AfterFirstAt(email)
TldOf(domainPart) == SubSeq(domainPart, LastIndexOf(domainPart, ".") + 1, Len(domainPart))
\* The grave accent of localPartPattern is written "GRAVE": the lexer of this
\* language does not accept that character inside a string.
LocalPartChars == Lower \cup Upper \cup Digit \cup
    {"!","#","$","%","&","'","*","+","/","=","?","^","_","GRAVE","{","|","}","~",".","-"}
DomainPartChars == Lower \cup Upper \cup Digit \cup {".","-"}

isValidEmail(email) ==
    /\ Len(email) > 0
    /\ Includes(email, "@")
    /\ Len(LocalPartOf(email)) # 0
    /\ Includes(DomainPartOf(email), ".")
    /\ Len(TldOf(DomainPartOf(email))) >= 2
    /\ ~ \E i \in 1..(Len(DomainPartOf(email)) - 1) :
            DomainPartOf(email)[i] = "." /\ DomainPartOf(email)[i + 1] = "."
    /\ DomainPartOf(email)[1] # "-"
    /\ DomainPartOf(email)[Len(DomainPartOf(email))] # "-"
    /\ \A i \in DOMAIN LocalPartOf(email) : LocalPartOf(email)[i] \in LocalPartChars
    /\ \A i \in DOMAIN DomainPartOf(email) : DomainPartOf(email)[i] \in DomainPartChars

validateEmail(operator) == isValidEmail(operator)

(***************************************************************************)
(* The values requests carry.                                              *)
(***************************************************************************)
GenesisEmail == <<"g","@","a","p","e",".","i","o">>
EmailA == <<"a","@","b",".","c","o","m">>
EmailBad == <<"a","@","b">>
Emails == {GenesisEmail, EmailA, EmailBad}

GenesisPassword == <<"1","1","1","1","1","1","a","A","!">>
PasswordA == <<"A","b","c","d","e","f","1","!">>
PasswordWeak == <<"w","e","a","k">>
Passwords == {GenesisPassword, PasswordA, PasswordWeak}

GenesisOperator == <<"G","e","n","e","s","i","s">>
NewOperator == <<"N","e","w"," ","O","p","e","r","a","t","o","r">>
NameCarol == <<"C","a","r","o","l">>
NameAlice == <<"A","l","i","c","e">>
NameBob == <<"B","o","b">>
Names == {NameCarol, NameAlice, NameBob}

(***************************************************************************)
(* The schema: the column descriptions of models/*.js and the constraints  *)
(* createTable derives from them.  createTable reads type, primaryKey and  *)
(* notNull only, so the one unique column of a table is its primary key.   *)
(***************************************************************************)
operatorModel ==
    [_id      |-> [type |-> "serial", primaryKey |-> TRUE,  notNull |-> TRUE],
     email    |-> [type |-> "text",   primaryKey |-> FALSE, notNull |-> TRUE],
     password |-> [type |-> "text",   primaryKey |-> FALSE, notNull |-> FALSE],
     operator |-> [type |-> "text",   primaryKey |-> FALSE, notNull |-> TRUE]]

tokenModel ==
    [_id          |-> [type |-> "serial",   primaryKey |-> TRUE,  notNull |-> TRUE],
     _fk_operator |-> [type |-> "integer",  primaryKey |-> FALSE, notNull |-> TRUE],
     token        |-> [type |-> "text",     primaryKey |-> FALSE, notNull |-> TRUE],
     created_at   |-> [type |-> "dateTime", primaryKey |-> FALSE, notNull |-> TRUE]]

\* createTable with a unique constraint on the column that references the owner.
createTableOwnerUnique(model) ==
    [unique  |-> {column \in DOMAIN model :
                     model[column].primaryKey \/ column = "_fk_operator"},
     notNull |-> {column \in DOMAIN model : model[column].notNull}]

createTable(model) ==
    [unique  |-> {column \in DOMAIN model : model[column].primaryKey},
     notNull |-> {column \in DOMAIN model : model[column].notNull}]

\* SQL NULL in a text column; a stored bcrypt hash is <<prefix, rounds, plaintext>>.
Null == <<>>

\* PostgreSQL's answer to an INSERT: SQLSTATE 23505 for a unique violation,
\* 23502 for a NULL in a NOT NULL column, otherwise the row is stored.
InsertCode(rows, row, model) ==
    IF \E column \in createTable(model).unique : \E x \in rows : x[column] = row[column]
    THEN "23505"
    ELSE IF \E column \in createTable(model).notNull :
                model[column].type = "text" /\ row[column] = Null
         THEN "23502"
         ELSE "ok"

\* bcrypt.hash(password, saltRounds); the salt is left out: no code compares
\* two hashes with each other.
BcryptHash(password, rounds) == <<"$2b$", rounds, password>>

\* bcrypt.compare(data, hash, cb): "data and hash arguments required" when the
\* hash is null, else whether the hash was made from data.
BcryptCompare(data, hash) ==
    IF hash = Null THEN "error"
    ELSE IF hash[3] = data THEN "match" ELSE "nomatch"

(***************************************************************************)
(* State.                                                                  *)
(*   operators, tokens, sessions  the three tables (sets of rows)          *)
(*   outbox      the mails requested of the mail service                   *)
(*   issued      issued[n] is what generateToken's n-th value was made for *)
(*   reqs        the requests in flight or answered, by slot               *)
(*   now         the clock                                                 *)
(*   nextId      the next values of the serial columns and of session ids  *)
(*   budget      how many requests of each kind, and how many clock ticks, *)
(*               the behaviour may still hold                              *)
(*   faults      how many database or mail faults have happened            *)
(***************************************************************************)
VARIABLES operators, tokens, sessions, outbox, issued, reqs, now, nextId, budget, faults

vars == <<operators, tokens, sessions, outbox, issued, reqs, now, nextId, budget, faults>>

Slots == 1..MaxSlots
Kinds == {"login", "logout", "forgot", "password", "operator", "probe", "invite",
          "welcome", "init"}
Msg(text) == <<text>>
\* A response: res.status(status).json({success, message}); keys are the
\* properties of the JSON object that was sent, data the entries of its data
\* property.  envelope is FALSE for an answer that is not such a JSON object.
NoResp == [status |-> 0, envelope |-> FALSE, success |-> FALSE, message |-> <<>>, data |-> {},
           keys |-> {}]
Json(status, success, message) ==
    [status |-> status, envelope |-> TRUE, success |-> success, message |-> message,
     data |-> {}, keys |-> {"success", "message"}]

\* generateToken: the n-th draw of crypto.randomBytes(20), in hexadecimal.  160
\* random bits do not repeat, so every draw is a new value; draw 0 is a value
\* that was never drawn.
Token(n) == <<"hex", n>>

NoReq == [kind |-> "none", pc |-> "idle", sid |-> 0, user |-> {}, email |-> <<>>,
          password |-> <<>>, token |-> Token(0), name |-> <<>>, row |-> {},
          age |-> -1, replay |-> FALSE, mail |-> "none", resp |-> NoResp]

\* insertGenesisUser: the stored hash is the hash of the password README.md names.
GenesisRow == [_id |-> 0, email |-> GenesisEmail, operator |-> GenesisOperator,
               password |-> BcryptHash(GenesisPassword, saltRounds)]

InitWith(b) ==
    /\ budget = b
    /\ operators = {GenesisRow}
    /\ tokens = {}
    /\ sessions = {}
    /\ outbox = {}
    /\ issued = <<>>
    /\ reqs = [r \in Slots |-> NoReq]
    /\ now = 0
    /\ nextId = [operators |-> 1, tokens |-> 1, sessions |-> 1]
    /\ faults = 0

(***************************************************************************)
(* The database service.  db is [operators, tokens]; a statement yields    *)
(* [db, error, code] with error = <<>> when it succeeded.  fault is a      *)
(* failure of the statement that the data do not explain (a lost           *)
(* connection, a timeout).                                                 *)
(***************************************************************************)
Db == [operators |-> operators, tokens |-> tokens]
DbError(n) == <<"database error", n>>
Succeeded(db) == [db |-> db, error |-> <<>>, code |-> "ok"]
Failed(db, error, code) == [db |-> db, error |-> error, code |-> code]

InsertRow(db, table, row, model, fault, n) ==
    IF fault THEN Failed(db, DbError(n), "08006")
    ELSE IF InsertCode(db[table], row, model) # "ok"
         THEN Failed(db, <<"constraint", n>>, InsertCode(db[table], row, model))
         ELSE Succeeded([db EXCEPT ![table] = @ \cup {row}])

\* An update that replaces the matching row: the columns that set does not name
\* become NULL.
UpdateWhereIdReplacesRow(db, table, id, set, fault, n) ==
    IF fault THEN Failed(db, DbError(n), "08006")
    ELSE Succeeded([db EXCEPT ![table] =
            {IF row._id = id
             THEN [column \in DOMAIN row |->
                      IF column \in DOMAIN set THEN set[column]
                      ELSE IF column = "_id" THEN row._id ELSE Null]
             ELSE row : row \in @}])

\* knex(table).where({_id: id}).update(set): every matching row takes the
\* columns of set; no matching row is no error.
UpdateWhereId(db, table, id, set, fault, n) ==
    IF fault THEN Failed(db, DbError(n), "08006")
    ELSE Succeeded([db EXCEPT ![table] =
            {IF row._id = id
             THEN [column \in DOMAIN row |->
                      IF column \in DOMAIN set THEN set[column] ELSE row[column]]
             ELSE row : row \in @}])

\* knex('auth.tokens').where('token', token).del(): no matching row is no error.
DeleteWhereToken(db, token, fault, n) ==
    IF fault THEN Failed(db, DbError(n), "08006")
    ELSE Succeeded([db EXCEPT !.tokens = {t \in @ : t.token # token}])

\* .first() of a query without ORDER BY: any one of the matching rows, or none.
First(rows) == IF rows = {} THEN {{}} ELSE {{row} : row \in rows}

getOperatorByEmail(email) == First({o \in operators : o.email = email})
getOperatorByName(name) == First({o \in operators : o.operator = name})
\* tokens JOIN operators ON tokens._fk_operator = operators._id WHERE tokens.token
\* = token; of the joined row the controller reads the email column only.
getOperatorByToken(token) ==
    First({o \in operators :
             \E t \in tokens : t.token = token /\ t._fk_operator = o._id})
\* The lookup without the time predicate.
getResetTokenRecordNoExpiry(token) == First({t \in tokens : t.token = token})
\* The time predicate with >= in place of >.
getResetTokenRecordInclusive(token) ==
    First({t \in tokens : t.token = token /\ t.created_at >= now - Hour})
getResetTokenRecord(token) ==
    First({t \in tokens : t.token = token /\ t.created_at > now - Hour})
getInviteTokenRecord(token) == First({t \in tokens : t.token = token})

\* trxRollback as a handler that reports the error and keeps what was written.
trxRollbackKeepsWrites(before, after) == Failed(after.db, after.error, after.code)

\* knex.transaction(function (trx) {first.then(second).then(trx.commit)
\* .catch(trx.rollback)}): before is the database when the transaction began,
\* after the outcome of the last statement that ran.
trxCommit(before, after) == Succeeded(after.db)
trxRollback(before, after) == Failed(before, after.error, after.code)
knexTransaction(before, first, second) ==
    IF first.error # <<>> THEN trxRollback(before, first)
    ELSE IF second.error # <<>> THEN trxRollback(before, second)
    ELSE trxCommit(before, second)

\* failAt is the statement of the transaction a fault strikes, 0 for none.
setResetToken(db, operator, token, fault) ==
    LET inserted == InsertRow(db, "tokens",
                        [_id |-> nextId.tokens, _fk_operator |-> operator,
                         token |-> token, created_at |-> now],
                        tokenModel, fault, 1)
    IN IF inserted.code = "23505"
       THEN Failed(db, Msg("Take it easy! For your safety, only one password reset request per hour."),
                   inserted.code)
       ELSE inserted

\* setInviteToken committing after the insert of the operator, the token's
\* insert left out of the transaction and its failure not looked at.
setInviteTokenOperatorFirst(db, operator, token, failAt) ==
    LET first == InsertRow(db, "operators",
                     [_id |-> nextId.operators, email |-> operator,
                      operator |-> NewOperator, password |-> Null],
                     operatorModel, failAt = 1, 1)
        second == InsertRow(first.db, "tokens",
                     [_id |-> nextId.tokens, _fk_operator |-> nextId.operators,
                      token |-> token, created_at |-> now],
                     tokenModel, failAt = 2, 2)
    IN IF first.error # <<>> THEN trxRollback(db, first)
       ELSE IF second.error # <<>> THEN Failed(first.db, second.error, second.code)
       ELSE trxCommit(db, second)

setInviteToken(db, operator, token, failAt) ==
    LET first == InsertRow(db, "operators",
                     [_id |-> nextId.operators, email |-> operator,
                      operator |-> NewOperator, password |-> Null],
                     operatorModel, failAt = 1, 1)
        second == InsertRow(first.db, "tokens",
                     [_id |-> nextId.tokens, _fk_operator |-> nextId.operators,
                      token |-> token, created_at |-> now],
                     tokenModel, failAt = 2, 2)
    IN knexTransaction(db, first, second)

\* updateOperator without its where clause: every row takes the name.
updateOperatorEveryRow(db, name, operator, fault) ==
    IF fault THEN Failed(db, DbError(1), "08006")
    ELSE Succeeded([db EXCEPT !.operators = {[row EXCEPT !.operator = name] : row \in @}])

updateOperator(db, name, operator, fault) ==
    UpdateWhereId(db, "operators", operator, [operator |-> name], fault, 1)

updatePassword(db, hash, token_record, failAt) ==
    LET first == UpdateWhereId(db, "operators", token_record._fk_operator,
                     [password |-> hash], failAt = 1, 1)
        second == DeleteWhereToken(first.db, token_record.token, failAt = 2, 2)
    IN knexTransaction(db, first, second)

\* initOperator without the .del() of the token.
initOperatorKeepsToken(db, operator, hash, token_record, failAt) ==
    LET first == UpdateWhereId(db, "operators", token_record._fk_operator,
                     [password |-> hash, operator |-> operator], failAt = 1, 1)
        second == IF failAt = 2 THEN Failed(first.db, DbError(2), "08006") ELSE first
    IN knexTransaction(db, first, second)

initOperator(db, operator, hash, token_record, failAt) ==
    LET first == UpdateWhereId(db, "operators", token_record._fk_operator,
                     [password |-> hash, operator |-> operator], failAt = 1, 1)
        second == DeleteWhereToken(first.db, token_record.token, failAt = 2, 2)
    IN knexTransaction(db, first, second)

\* The strategy with the bcrypt error not looked at: only a computed mismatch
\* is refused.
verifyIgnoresBcryptError(found, password) ==
    IF found = {}
    THEN [error |-> FALSE, user |-> {}, info |-> "Operator not found"]
    ELSE IF BcryptCompare(password, (CHOOSE o \in found : TRUE).password) = "nomatch"
         THEN [error |-> FALSE, user |-> {}, info |-> "Password does not match"]
         ELSE [error |-> FALSE, user |-> found, info |-> "Successfully authenticated"]

(***************************************************************************)
(* The local strategy: found is the outcome of the .first() query, {} or   *)
(* {row}.  The result is what done(error, user, info) receives.            *)
(***************************************************************************)
verify(found, password) ==
    IF found = {}
    THEN [error |-> FALSE, user |-> {}, info |-> "Operator not found"]
    ELSE LET operator == CHOOSE o \in found : TRUE
             isMatch == BcryptCompare(password, operator.password)
         IN IF isMatch = "error"
            THEN [error |-> TRUE, user |-> {}, info |-> "Bcrypt error"]
            ELSE IF isMatch = "nomatch"
                 THEN [error |-> FALSE, user |-> {}, info |-> "Password does not match"]
                 ELSE [error |-> FALSE, user |-> found, info |-> "Successfully authenticated"]

\* authenticatedUser.id: the property of a row object, undefined ({}) when the
\* row has no column of that name.
Property(row, name) == IF name \in DOMAIN row THEN {row[name]} ELSE {}

\* jwt.sign({userId: ...}, JWT_SECRET, {expiresIn: '1h'})
jwtSign(payload) == [payload |-> payload, iat |-> now, exp |-> now + Hour]
\* jwt.verify's test of exp, which no code of this service runs.
jwtExpired(token) == now >= token.exp

(***************************************************************************)
(* Requests.                                                               *)
(***************************************************************************)
Free(r) == reqs[r].pc \in {"idle", "done"}
\* A new request takes the lowest free slot (slots are interchangeable).
CanStart(r, kind) ==
    /\ Free(r)
    /\ \A q \in Slots : q < r => ~Free(q)
    /\ budget[kind] > 0
Begin(r, req) ==
    /\ reqs' = [reqs EXCEPT ![r] = req]
    /\ budget' = [budget EXCEPT ![req.kind] = @ - 1]
Answer(r, resp) == reqs' = [reqs EXCEPT ![r] = [@ EXCEPT !.pc = "done", !.resp = resp]]
Goto(r, pc, row) == reqs' = [reqs EXCEPT ![r] = [@ EXCEPT !.pc = pc, !.row = row]]
Faulty == IF faults < MaxFaults THEN BOOLEAN ELSE {FALSE}
FailAt == IF faults < MaxFaults THEN 0..2 ELSE {0}
Count(fault) == faults' = IF fault THEN faults + 1 ELSE faults
Error500(error) == Json(500, FALSE, error)
DrawnTokens == {Token(n) : n \in 0..Len(issued)}

\* The session cookie of a request: none (0), or the id of a session that was
\* established, which may have been destroyed since.
Cookies == 0..(nextId.sessions - 1)

\* routes/auth_routes.js: isAuthenticated, and the answer of a protected route
\* to a request without an authenticated session.
\* The session store returns a row while its expired column is in the future;
\* req.isAuthenticated() is whether the session it loaded holds a user.
isAuthenticatedWithLiveBearer(sid) ==
    \E s \in sessions : s.sid = sid /\ s.expired > now /\ ~jwtExpired(s.token)
isAuthenticated(sid) == \E s \in sessions : s.sid = sid /\ s.expired > now
Unauthenticated == [Json(403, FALSE, Msg("Unauthenticated. Please log in first"))
                      EXCEPT !.data = {}, !.keys = {"status", "success", "message", "data"}]
\* passport.deserializeUser: the user is what the session holds.
deserializeUser(sid) ==
    {s.passport.user : s \in {x \in sessions : x.sid = sid /\ x.expired > now}}
\* A route registered without the isAuthenticated middleware.
BeginUnguarded(r, req) == Begin(r, [req EXCEPT !.user = deserializeUser(req.sid)])

\* For a request that is let through, age records how old the bearer claim of
\* its session is on arrival; it is read by the properties only.
BeginProtected(r, req) ==
    IF isAuthenticated(req.sid)
    THEN Begin(r, [req EXCEPT !.user = deserializeUser(req.sid),
                              !.age = now - (CHOOSE s \in sessions : s.sid = req.sid).token.iat])
    ELSE Begin(r, [req EXCEPT !.pc = "done", !.resp = Unauthenticated])

(***************************************************************************)
(* POST /auth/login                                                        *)
(***************************************************************************)
YouShallNotPass == Json(400, FALSE, Msg("You shall not pass!"))

\* The callback of passport.authenticate with what done(error, user, info) was
\* given, told apart by its info.
loginFailureTellsInfo(info) == Json(400, FALSE, Msg(info))

\* The callback of passport.authenticate when it gets no user: it takes (error,
\* authenticatedUser) only, whatever the strategy's info says.
loginFailure(info) == YouShallNotPass

StartLogin(r) ==
    /\ CanStart(r, "login")
    /\ \E email \in Emails \ {EmailBad}, password \in Passwords \ {PasswordWeak} :
          Begin(r, [NoReq EXCEPT !.kind = "login", !.pc = "lookup",
                                 !.email = email, !.password = password])
    /\ UNCHANGED <<operators, tokens, sessions, outbox, issued, now, nextId, faults>>

\* The strategy's query; its .catch hands the error to done, and the callback
\* of passport.authenticate answers 400 whenever it gets no user.
LoginLookup(r) ==
    /\ reqs[r].kind = "login" /\ reqs[r].pc = "lookup"
    /\ \E fault \in Faulty :
          /\ Count(fault)
          /\ IF fault THEN Answer(r, loginFailure("knex error"))
             ELSE \E found \in getOperatorByEmail(reqs[r].email) :
                     IF verify(found, reqs[r].password).info = "Operator not found"
                     THEN Answer(r, loginFailure("Operator not found"))
                     ELSE Goto(r, "compare", found)
    /\ UNCHANGED <<operators, tokens, sessions, outbox, issued, now, nextId, budget>>

\* bcrypt's callback, then req.login and the session's bearer token.  A fault
\* here is req.login failing: the handler calls next(error), and the answer is
\* Express's error page.
LoginCompare(r) ==
    /\ reqs[r].kind = "login" /\ reqs[r].pc = "compare"
    /\ LET authenticatedUser == verify(reqs[r].row, reqs[r].password).user
       IN IF authenticatedUser = {}
          THEN /\ Answer(r, loginFailure(verify(reqs[r].row, reqs[r].password).info))
               /\ UNCHANGED <<sessions, nextId, faults>>
          ELSE \E fault \in Faulty :
                 /\ Count(fault)
                 /\ IF fault
                    THEN /\ Answer(r, [NoResp EXCEPT !.status = 500])
                         /\ UNCHANGED <<sessions, nextId>>
                    ELSE /\ sessions' = sessions \cup
                              {[sid |-> nextId.sessions, expired |-> now + oneDay,
                                passport |-> [user |-> CHOOSE u \in authenticatedUser : TRUE],
                                token |-> jwtSign([userId |->
                                    Property(CHOOSE u \in authenticatedUser : TRUE, "id")])]}
                         /\ nextId' = [nextId EXCEPT !.sessions = @ + 1]
                         /\ Answer(r, [Json(200, TRUE, Msg("Login successful"))
                                         EXCEPT !.data = authenticatedUser,
                                                !.keys = @ \cup {"data"}])
    /\ UNCHANGED <<operators, tokens, outbox, issued, now, budget>>

(***************************************************************************)
(* GET /auth/logout (protected)                                            *)
(***************************************************************************)
LoggedOut == Json(200, TRUE, Msg("The operator has been logged out"))

\* replay records that a logout of this session had been answered with success,
\* its session destroyed, when the request arrived; it is read by the
\* properties only.
StartLogout(r) ==
    /\ CanStart(r, "logout")
    /\ \E sid \in Cookies :
          BeginProtected(r, [NoReq EXCEPT !.kind = "logout", !.pc = "destroy", !.sid = sid,
                !.replay = \E q \in Slots : /\ reqs[q].kind = "logout" /\ reqs[q].pc = "done"
                                             /\ reqs[q].sid = sid /\ reqs[q].resp = LoggedOut
                                             /\ reqs[q].row = {}])
    /\ UNCHANGED <<operators, tokens, sessions, outbox, issued, now, nextId, faults>>

\* req.logout and req.session.destroy with the session left in the store.
LogoutKeepsSession(r) ==
    /\ reqs[r].kind = "logout" /\ reqs[r].pc = "destroy"
    /\ reqs' = [reqs EXCEPT ![r] = [@ EXCEPT !.pc = "done", !.row = {}, !.resp = LoggedOut]]
    /\ UNCHANGED <<operators, tokens, sessions, outbox, issued, now, nextId, budget, faults>>

\* logout destroying every session of the caller's operator.
LogoutDestroysAllOfOperator(r) ==
    /\ reqs[r].kind = "logout" /\ reqs[r].pc = "destroy"
    /\ \E fault \in Faulty :
          /\ Count(fault)
          /\ sessions' = IF fault THEN sessions
                         ELSE {s \in sessions : s.passport.user \notin reqs[r].user}
          /\ reqs' = [reqs EXCEPT ![r] = [@ EXCEPT !.pc = "done", !.resp = LoggedOut,
                         !.row = IF fault THEN {s \in sessions : s.sid = reqs[r].sid}
                                 ELSE {}]]
    /\ UNCHANGED <<operators, tokens, outbox, issued, now, nextId, budget>>

\* req.logout and req.session.destroy.  Neither callback looks at an error: when
\* the store fails the session stays and the answer is the same.  row is what
\* the store still holds of the session afterwards.
LogoutDestroy(r) ==
    /\ reqs[r].kind = "logout" /\ reqs[r].pc = "destroy"
    /\ \E fault \in Faulty :
          /\ Count(fault)
          /\ sessions' = IF fault THEN sessions
                         ELSE {s \in sessions : s.sid # reqs[r].sid}
          /\ reqs' = [reqs EXCEPT ![r] = [@ EXCEPT !.pc = "done", !.resp = LoggedOut,
                         !.row = IF fault THEN {s \in sessions : s.sid = reqs[r].sid}
                                 ELSE {}]]
    /\ UNCHANGED <<operators, tokens, outbox, issued, now, nextId, budget>>

(***************************************************************************)
(* POST /auth/forgot                                                       *)
(***************************************************************************)
ForgotAccepted == Json(200, TRUE, Msg("If that was your email, you will soon get mail."))

\* forgot for an email no operator has, had it said so.
forgotNoOperatorTold == Error500(Msg("Operator not found"))

\* forgot for an email no operator has: the answer of a forgot that succeeded.
forgotNoOperator == ForgotAccepted

StartForgot(r) ==
    /\ CanStart(r, "forgot")
    /\ \E email \in Emails :
          Begin(r, [NoReq EXCEPT !.kind = "forgot", !.pc = "lookup", !.email = email])
    /\ UNCHANGED <<operators, tokens, sessions, outbox, issued, now, nextId, faults>>

ForgotLookup(r) ==
    /\ reqs[r].kind = "forgot" /\ reqs[r].pc = "lookup"
    /\ IF ~validateEmail(reqs[r].email)
       THEN Answer(r, Error500(Msg("That's not a valid email!"))) /\ UNCHANGED faults
       ELSE \E fault \in Faulty :
              /\ Count(fault)
              /\ IF fault THEN Answer(r, Error500(DbError(1)))
                 ELSE \E operator \in getOperatorByEmail(reqs[r].email) :
                         IF operator = {} THEN Answer(r, forgotNoOperator)
                         ELSE Goto(r, "insert", operator)
    /\ UNCHANGED <<operators, tokens, sessions, outbox, issued, now, nextId, budget>>

\* generateToken, generateLink and setResetToken.
ForgotInsert(r) ==
    /\ reqs[r].kind = "forgot" /\ reqs[r].pc = "insert"
    /\ issued' = Append(issued, [route |-> "forgot", email |-> reqs[r].email,
                                  redeemed |-> "no"])
    /\ \E fault \in Faulty :
          LET token == Token(Len(issued) + 1)
              operator == CHOOSE o \in reqs[r].row : TRUE
              result == setResetToken(Db, operator._id, token, fault)
          IN /\ Count(fault)
             /\ tokens' = result.db.tokens
             /\ nextId' = [nextId EXCEPT !.tokens = @ + 1]
             /\ IF result.error # <<>>
                THEN reqs' = [reqs EXCEPT ![r] = [@ EXCEPT !.pc = "done", !.token = token,
                                                    !.resp = Error500(result.error)]]
                ELSE reqs' = [reqs EXCEPT ![r] = [@ EXCEPT !.pc = "mail", !.token = token]]
    /\ UNCHANGED <<operators, sessions, outbox, now, budget>>

\* mailService.sendMail: the transport answers ok, answers with an error status,
\* or the fetch throws.
MailOutcomes == IF faults < MaxFaults THEN {"ok", "notok", "throw"} ELSE {"ok"}
\* A response of the mail service that is not ok, and its body's error.
TransportError == [ok |-> FALSE, status |-> 502, error |-> Msg("mail transport error")]
MailRejected == Json(TransportError.status, FALSE, TransportError.error)
MailThrown == Error500(Msg("fetch failed"))
InvitationExtended == Json(200, TRUE, Msg("Your invitation has been extended."))

\* forgot after sendMail: response.ok decides, a non-ok response is passed on
\* with its status and its error.
forgotMailResponse(outcome) ==
    CASE outcome = "ok" -> ForgotAccepted
      [] outcome = "notok" -> MailRejected
      [] outcome = "throw" -> MailThrown

\* invite after sendMail, had it looked at the response as forgot does.
inviteMailResponsePassedOn(outcome) == forgotMailResponse(outcome)

\* invite after sendMail: the response is not looked at, only a throw fails the
\* invite.
inviteMailResponse(outcome) ==
    IF outcome = "throw" THEN MailThrown ELSE InvitationExtended

\* forgot deleting its token when the mail was not sent.
ForgotMailRollsBack(r) ==
    /\ reqs[r].kind = "forgot" /\ reqs[r].pc = "mail"
    /\ outbox' = outbox \cup {[to |-> reqs[r].email, route |-> "forgot",
                                 token |-> reqs[r].token]}
    /\ \E outcome \in MailOutcomes :
          /\ Count(outcome # "ok")
          /\ tokens' = IF outcome = "ok" THEN tokens
                       ELSE {t \in tokens : t.token # reqs[r].token}
          /\ reqs' = [reqs EXCEPT ![r] = [@ EXCEPT !.pc = "done", !.mail = outcome,
                                                 !.resp = forgotMailResponse(outcome)]]
    /\ UNCHANGED <<operators, sessions, issued, now, nextId, budget>>

ForgotMail(r) ==
    /\ reqs[r].kind = "forgot" /\ reqs[r].pc = "mail"
    /\ outbox' = outbox \cup {[to |-> reqs[r].email, route |-> "forgot",
                                 token |-> reqs[r].token]}
    /\ \E outcome \in MailOutcomes :
          /\ Count(outcome # "ok")
          /\ reqs' = [reqs EXCEPT ![r] = [@ EXCEPT !.pc = "done", !.mail = outcome,
                                                 !.resp = forgotMailResponse(outcome)]]
    /\ UNCHANGED <<operators, tokens, sessions, issued, now, nextId, budget>>

(***************************************************************************)
(* POST /auth/password                                                     *)
(***************************************************************************)
StartPassword(r) ==
    /\ CanStart(r, "password")
    /\ \E token \in DrawnTokens, password \in Passwords :
          Begin(r, [NoReq EXCEPT !.kind = "password", !.pc = "lookup",
                                 !.token = token, !.password = password])
    /\ UNCHANGED <<operators, tokens, sessions, outbox, issued, now, nextId, faults>>

\* age records how old the row with this token value is at the lookup (-1: no
\* such row); it is read by the properties only.
PasswordLookup(r) ==
    /\ reqs[r].kind = "password" /\ reqs[r].pc = "lookup"
    /\ IF ~validatePassword(reqs[r].password)
       THEN Answer(r, Error500(Msg("That's not a valid password!"))) /\ UNCHANGED faults
       ELSE \E fault \in Faulty :
              /\ Count(fault)
              /\ IF fault THEN Answer(r, Error500(DbError(1)))
                 ELSE \E tokenRecord \in getResetTokenRecord(reqs[r].token) :
                        LET age == IF \E t \in tokens : t.token = reqs[r].token
                                   THEN now - (CHOOSE t \in tokens :
                                                  t.token = reqs[r].token).created_at
                                   ELSE -1
                        IN IF tokenRecord = {}
                           THEN reqs' = [reqs EXCEPT ![r] = [@ EXCEPT !.pc = "done",
                                   !.age = age,
                                   !.resp = Error500(Msg("This token isn't valid. Tokens time out after an hour."))]]
                           ELSE reqs' = [reqs EXCEPT ![r] = [@ EXCEPT !.pc = "tx",
                                   !.age = age, !.row = tokenRecord]]
    /\ UNCHANGED <<operators, tokens, sessions, outbox, issued, now, nextId, budget>>

Redeem(token, by) == [issued EXCEPT ![token[2]] = [@ EXCEPT !.redeemed = by]]

\* bcrypt.hash and updatePassword.
PasswordTx(r) ==
    /\ reqs[r].kind = "password" /\ reqs[r].pc = "tx"
    /\ \E failAt \in FailAt :
          LET tokenRecord == CHOOSE t \in reqs[r].row : TRUE
              hash == BcryptHash(reqs[r].password, saltRounds)
              result == updatePassword(Db, hash, tokenRecord, failAt)
          IN /\ Count(failAt # 0)
             /\ operators' = result.db.operators
             /\ tokens' = result.db.tokens
             /\ IF result.error # <<>>
                THEN Answer(r, Error500(result.error)) /\ UNCHANGED issued
                ELSE /\ Answer(r, Json(200, TRUE, Msg("Password updated successfully")))
                     /\ issued' = Redeem(tokenRecord.token, "password")
    /\ UNCHANGED <<sessions, outbox, now, nextId, budget>>

(***************************************************************************)
(* POST /auth/operator (protected)                                         *)
(***************************************************************************)
NameTaken == Error500(Msg("This name is taken."))

StartOperator(r) ==
    /\ CanStart(r, "operator")
    /\ \E sid \in Cookies, name \in Names :
          BeginProtected(r, [NoReq EXCEPT !.kind = "operator", !.pc = "lookup",
                                          !.sid = sid, !.name = name])
    /\ UNCHANGED <<operators, tokens, sessions, outbox, issued, now, nextId, faults>>

OperatorLookup(r) ==
    /\ reqs[r].kind = "operator" /\ reqs[r].pc = "lookup"
    /\ IF ~validateOperator(reqs[r].name)
       THEN Answer(r, Error500(Msg("That's not a valid name."))) /\ UNCHANGED faults
       ELSE \E fault \in Faulty :
              /\ Count(fault)
              /\ IF fault THEN Answer(r, Error500(DbError(1)))
                 ELSE \E operatorRecord \in getOperatorByName(reqs[r].name) :
                         IF operatorRecord # {} THEN Answer(r, NameTaken)
                         ELSE Goto(r, "update", {})
    /\ UNCHANGED <<operators, tokens, sessions, outbox, issued, now, nextId, budget>>

\* operator, had it written the new name into the caller's session as well.
OperatorUpdateRefreshesSession(r) ==
    /\ reqs[r].kind = "operator" /\ reqs[r].pc = "update"
    /\ \E fault \in Faulty :
          LET user == CHOOSE u \in reqs[r].user : TRUE
              result == updateOperator(Db, reqs[r].name, user._id, fault)
          IN /\ Count(fault)
             /\ operators' = result.db.operators
             /\ IF result.error # <<>>
                THEN Answer(r, Error500(result.error)) /\ UNCHANGED sessions
                ELSE /\ Answer(r, Json(200, TRUE,
                                       <<"Stand and be recognized ">> \o reqs[r].name))
                     /\ sessions' = {IF s.sid = reqs[r].sid
                                     THEN [s EXCEPT !.passport.user.operator = reqs[r].name]
                                     ELSE s : s \in sessions}
    /\ UNCHANGED <<tokens, outbox, issued, now, nextId, budget>>

OperatorUpdate(r) ==
    /\ reqs[r].kind = "operator" /\ reqs[r].pc = "update"
    /\ \E fault \in Faulty :
          LET user == CHOOSE u \in reqs[r].user : TRUE
              result == updateOperator(Db, reqs[r].name, user._id, fault)
          IN /\ Count(fault)
             /\ operators' = result.db.operators
             /\ IF result.error # <<>>
                THEN Answer(r, Error500(result.error))
                ELSE Answer(r, Json(200, TRUE,
                                    <<"Stand and be recognized ">> \o reqs[r].name))
    /\ UNCHANGED <<tokens, sessions, outbox, issued, now, nextId, budget>>

(***************************************************************************)
(* POST /auth/probe (protected)                                            *)
(***************************************************************************)
StartProbe(r) ==
    /\ CanStart(r, "probe")
    /\ \E sid \in Cookies, name \in Names \cup {GenesisOperator} :
          BeginProtected(r, [NoReq EXCEPT !.kind = "probe", !.pc = "lookup",
                                          !.sid = sid, !.name = name])
    /\ UNCHANGED <<operators, tokens, sessions, outbox, issued, now, nextId, faults>>

\* probe, had it reserved the name it found available.
ProbeLookupReserves(r) ==
    /\ reqs[r].kind = "probe" /\ reqs[r].pc = "lookup"
    /\ operators' = {IF o \in reqs[r].user /\ getOperatorByName(reqs[r].name) = {{}}
                     THEN [o EXCEPT !.operator = reqs[r].name] ELSE o : o \in operators}
    /\ Answer(r, Json(200, TRUE, <<"Name ">> \o reqs[r].name \o <<" is available">>))
    /\ UNCHANGED <<tokens, sessions, outbox, issued, now, nextId, budget, faults>>

\* The name is not validated; getOperatorByName is the only statement.
ProbeLookup(r) ==
    /\ reqs[r].kind = "probe" /\ reqs[r].pc = "lookup"
    /\ \E fault \in Faulty :
          /\ Count(fault)
          /\ IF fault THEN Answer(r, Error500(DbError(1)))
             ELSE \E operatorRecord \in getOperatorByName(reqs[r].name) :
                     IF operatorRecord # {} THEN Answer(r, NameTaken)
                     ELSE Answer(r, Json(200, TRUE,
                                  <<"Name ">> \o reqs[r].name \o <<" is available">>))
    /\ UNCHANGED <<operators, tokens, sessions, outbox, issued, now, nextId, budget>>

(***************************************************************************)
(* POST /auth/invite (protected)                                           *)
(***************************************************************************)
StartInvite(r) ==
    /\ CanStart(r, "invite")
    /\ \E sid \in Cookies, email \in Emails :
          BeginProtected(r, [NoReq EXCEPT !.kind = "invite", !.pc = "lookup",
                                          !.sid = sid, !.email = email])
    /\ UNCHANGED <<operators, tokens, sessions, outbox, issued, now, nextId, faults>>

AlreadyJoined == Error500(Msg("This operator has already joined."))
NotAValidEmail == Error500(Msg("That's not a valid email!"))

\* invite without the lookup of the operator.
InviteLookupSkipped(r) ==
    /\ reqs[r].kind = "invite" /\ reqs[r].pc = "lookup"
    /\ IF ~validateEmail(reqs[r].email)
       THEN Answer(r, NotAValidEmail)
       ELSE Goto(r, "tx", {})
    /\ UNCHANGED <<operators, tokens, sessions, outbox, issued, now, nextId, budget, faults>>

InviteLookup(r) ==
    /\ reqs[r].kind = "invite" /\ reqs[r].pc = "lookup"
    /\ IF ~validateEmail(reqs[r].email)
       THEN Answer(r, NotAValidEmail) /\ UNCHANGED faults
       ELSE \E fault \in Faulty :
              /\ Count(fault)
              /\ IF fault THEN Answer(r, Error500(DbError(1)))
                 ELSE \E operatorRecord \in getOperatorByEmail(reqs[r].email) :
                         IF operatorRecord # {}
                         THEN Answer(r, AlreadyJoined)
                         ELSE Goto(r, "tx", {})
    /\ UNCHANGED <<operators, tokens, sessions, outbox, issued, now, nextId, budget>>

\* generateToken, generateLink and setInviteToken.  The serial columns move on
\* even when the transaction is rolled back.
InviteTx(r) ==
    /\ reqs[r].kind = "invite" /\ reqs[r].pc = "tx"
    /\ issued' = Append(issued, [route |-> "welcome", email |-> reqs[r].email,
                                  redeemed |-> "no"])
    /\ \E failAt \in FailAt :
          LET token == Token(Len(issued) + 1)
              result == setInviteToken(Db, reqs[r].email, token, failAt)
          IN /\ Count(failAt # 0)
             /\ operators' = result.db.operators
             /\ tokens' = result.db.tokens
             /\ nextId' = [nextId EXCEPT !.operators = @ + 1, !.tokens = @ + 1]
             /\ IF result.error # <<>>
                THEN reqs' = [reqs EXCEPT ![r] = [@ EXCEPT !.pc = "done", !.token = token,
                                                    !.resp = Error500(result.error)]]
                ELSE reqs' = [reqs EXCEPT ![r] = [@ EXCEPT !.pc = "mail", !.token = token]]
    /\ UNCHANGED <<sessions, outbox, now, budget>>

InviteMail(r) ==
    /\ reqs[r].kind = "invite" /\ reqs[r].pc = "mail"
    /\ outbox' = outbox \cup {[to |-> reqs[r].email, route |-> "welcome",
                                 token |-> reqs[r].token]}
    /\ \E outcome \in MailOutcomes :
          /\ Count(outcome # "ok")
          /\ reqs' = [reqs EXCEPT ![r] = [@ EXCEPT !.pc = "done", !.mail = outcome,
                                                 !.resp = inviteMailResponse(outcome)]]
    /\ UNCHANGED <<operators, tokens, sessions, issued, now, nextId, budget>>

(***************************************************************************)
(* POST /auth/welcome                                                      *)
(***************************************************************************)
StartWelcome(r) ==
    /\ CanStart(r, "welcome")
    /\ \E token \in DrawnTokens :
          Begin(r, [NoReq EXCEPT !.kind = "welcome", !.pc = "lookup", !.token = token])
    /\ UNCHANGED <<operators, tokens, sessions, outbox, issued, now, nextId, faults>>

WelcomeLookup(r) ==
    /\ reqs[r].kind = "welcome" /\ reqs[r].pc = "lookup"
    /\ \E fault \in Faulty :
          /\ Count(fault)
          /\ IF fault THEN Answer(r, Error500(DbError(1)))
             ELSE \E operator \in getOperatorByToken(reqs[r].token) :
                     IF operator = {}
                     THEN Answer(r, Error500(Msg("There is no invitation for this token.")))
                     ELSE Answer(r, Json(200, TRUE, (CHOOSE o \in operator : TRUE).email))
    /\ UNCHANGED <<operators, tokens, sessions, outbox, issued, now, nextId, budget>>

(***************************************************************************)
(* POST /auth/init                                                         *)
(***************************************************************************)
InvalidInvitation == Error500(Msg("This invitation is invalid."))

\* replay records that a finished init had already redeemed this token when the
\* request arrived; it is read by the properties only.
StartInit(r) ==
    /\ CanStart(r, "init")
    /\ \E token \in DrawnTokens, password \in Passwords \ {GenesisPassword},
          name \in Names :
          Begin(r, [NoReq EXCEPT !.kind = "init", !.pc = "lookupName",
                                 !.token = token, !.password = password, !.name = name,
                                 !.replay = /\ token[2] # 0
                                            /\ issued[token[2]].redeemed = "init"])
    /\ UNCHANGED <<operators, tokens, sessions, outbox, issued, now, nextId, faults>>

InitLookupName(r) ==
    /\ reqs[r].kind = "init" /\ reqs[r].pc = "lookupName"
    /\ IF ~validateOperator(reqs[r].name)
       THEN Answer(r, Error500(Msg("That's not a valid name."))) /\ UNCHANGED faults
       ELSE \E fault \in Faulty :
              /\ Count(fault)
              /\ IF fault THEN Answer(r, Error500(DbError(1)))
                 ELSE \E existingOperator \in getOperatorByName(reqs[r].name) :
                         IF existingOperator # {} THEN Answer(r, NameTaken)
                         ELSE Goto(r, "lookupToken", {})
    /\ UNCHANGED <<operators, tokens, sessions, outbox, issued, now, nextId, budget>>

\* The invitation looked up before the password is validated.
InitLookupTokenFirst(r) ==
    /\ reqs[r].kind = "init" /\ reqs[r].pc = "lookupToken"
    /\ \E fault \in Faulty :
          /\ Count(fault)
          /\ IF fault THEN Answer(r, Error500(DbError(1)))
             ELSE \E tokenRecord \in getInviteTokenRecord(reqs[r].token) :
                     IF tokenRecord = {} THEN Answer(r, InvalidInvitation)
                     ELSE IF ~validatePassword(reqs[r].password)
                          THEN Answer(r, Error500(Msg("That's not a valid password.")))
                          ELSE Goto(r, "tx", tokenRecord)
    /\ UNCHANGED <<operators, tokens, sessions, outbox, issued, now, nextId, budget>>

\* init deleting the token it was given when it refuses the password.
InitLookupTokenBurnsToken(r) ==
    /\ reqs[r].kind = "init" /\ reqs[r].pc = "lookupToken"
    /\ IF ~validatePassword(reqs[r].password)
       THEN /\ Answer(r, Error500(Msg("That's not a valid password.")))
            /\ tokens' = {t \in tokens : t.token # reqs[r].token}
            /\ UNCHANGED faults
       ELSE /\ UNCHANGED tokens
            /\ \E fault \in Faulty :
                  /\ Count(fault)
                  /\ IF fault THEN Answer(r, Error500(DbError(1)))
                     ELSE \E tokenRecord \in getInviteTokenRecord(reqs[r].token) :
                             IF tokenRecord = {} THEN Answer(r, InvalidInvitation)
                             ELSE Goto(r, "tx", tokenRecord)
    /\ UNCHANGED <<operators, sessions, outbox, issued, now, nextId, budget>>

InitLookupToken(r) ==
    /\ reqs[r].kind = "init" /\ reqs[r].pc = "lookupToken"
    /\ IF ~validatePassword(reqs[r].password)
       THEN Answer(r, Error500(Msg("That's not a valid password."))) /\ UNCHANGED faults
       ELSE \E fault \in Faulty :
              /\ Count(fault)
              /\ IF fault THEN Answer(r, Error500(DbError(1)))
                 ELSE \E tokenRecord \in getInviteTokenRecord(reqs[r].token) :
                         IF tokenRecord = {} THEN Answer(r, InvalidInvitation)
                         ELSE Goto(r, "tx", tokenRecord)
    /\ UNCHANGED <<operators, tokens, sessions, outbox, issued, now, nextId, budget>>

\* bcrypt.hash and initOperator.
InitTx(r) ==
    /\ reqs[r].kind = "init" /\ reqs[r].pc = "tx"
    /\ \E failAt \in FailAt :
          LET tokenRecord == CHOOSE t \in reqs[r].row : TRUE
              hash == BcryptHash(reqs[r].password, saltRounds)
              result == initOperator(Db, reqs[r].name, hash, tokenRecord, failAt)
          IN /\ Count(failAt # 0)
             /\ operators' = result.db.operators
             /\ tokens' = result.db.tokens
             /\ IF result.error # <<>>
                THEN Answer(r, Error500(result.error)) /\ UNCHANGED issued
                ELSE /\ Answer(r, Json(200, TRUE, Msg("Operator successfully initialized.")))
                     /\ issued' = Redeem(tokenRecord.token, "init")
    /\ UNCHANGED <<sessions, outbox, now, nextId, budget>>

(***************************************************************************)
(* Time passes.                                                            *)
(***************************************************************************)
Tick ==
    /\ budget["tick"] > 0
    /\ now' = now + 1
    /\ budget' = [budget EXCEPT !["tick"] = @ - 1]
    /\ UNCHANGED <<operators, tokens, sessions, outbox, issued, reqs, nextId, faults>>

NoBudget == [k \in Kinds \cup {"tick"} |-> 0]

\* The use cases that write operators: login, forgot, password, operator, invite
\* and init, a few requests of each.
Init == InitWith([NoBudget EXCEPT !["login"] = MaxEach, !["forgot"] = MaxEach,
                                  !["password"] = MaxEach, !["operator"] = MaxEach,
                                  !["invite"] = MaxEach, !["init"] = MaxEach])
Next ==
    \/ \E r \in Slots : StartLogin(r)
    \/ \E r \in Slots : LoginLookup(r)
    \/ \E r \in Slots : LoginCompare(r)
    \/ \E r \in Slots : StartForgot(r)
    \/ \E r \in Slots : ForgotLookup(r)
    \/ \E r \in Slots : ForgotInsert(r)
    \/ \E r \in Slots : ForgotMail(r)
    \/ \E r \in Slots : StartPassword(r)
    \/ \E r \in Slots : PasswordLookup(r)
    \/ \E r \in Slots : PasswordTx(r)
    \/ \E r \in Slots : StartOperator(r)
    \/ \E r \in Slots : OperatorLookup(r)
    \/ \E r \in Slots : OperatorUpdate(r)
    \/ \E r \in Slots : StartInvite(r)
    \/ \E r \in Slots : InviteLookup(r)
    \/ \E r \in Slots : InviteTx(r)
    \/ \E r \in Slots : InviteMail(r)
    \/ \E r \in Slots : StartInit(r)
    \/ \E r \in Slots : InitLookupName(r)
    \/ \E r \in Slots : InitLookupToken(r)
    \/ \E r \in Slots : InitTx(r)
Spec == Init /\ [][Next]_vars

\* The reset flow: forgot, password and the clock.
InitReset == InitWith([NoBudget EXCEPT !["forgot"] = MaxForgot,
                                       !["password"] = MaxPassword,
                                       !["tick"] = MaxTime])
NextReset ==
    \/ \E r \in Slots : StartForgot(r)
    \/ \E r \in Slots : ForgotLookup(r)
    \/ \E r \in Slots : ForgotInsert(r)
    \/ \E r \in Slots : ForgotMail(r)
    \/ \E r \in Slots : StartPassword(r)
    \/ \E r \in Slots : PasswordLookup(r)
    \/ \E r \in Slots : PasswordTx(r)
    \/ Tick
SpecReset == InitReset /\ [][NextReset]_vars

\* The invite flow: login, invite, welcome and init.
InitInvite == InitWith([NoBudget EXCEPT !["login"] = MaxLogin,
                                        !["invite"] = MaxInvite,
                                        !["welcome"] = MaxWelcome,
                                        !["init"] = MaxInit])
NextInvite ==
    \/ \E r \in Slots : StartLogin(r)
    \/ \E r \in Slots : LoginLookup(r)
    \/ \E r \in Slots : LoginCompare(r)
    \/ \E r \in Slots : StartInvite(r)
    \/ \E r \in Slots : InviteLookup(r)
    \/ \E r \in Slots : InviteTx(r)
    \/ \E r \in Slots : InviteMail(r)
    \/ \E r \in Slots : StartWelcome(r)
    \/ \E r \in Slots : WelcomeLookup(r)
    \/ \E r \in Slots : StartInit(r)
    \/ \E r \in Slots : InitLookupName(r)
    \/ \E r \in Slots : InitLookupToken(r)
    \/ \E r \in Slots : InitTx(r)
SpecInvite == InitInvite /\ [][NextInvite]_vars

\* Sessions and the protected routes: login, logout, operator, probe and invite.
InitSession == InitWith([NoBudget EXCEPT !["login"] = MaxLogin,
                                         !["logout"] = MaxLogout,
                                         !["operator"] = MaxEach,
                                         !["probe"] = MaxProbe,
                                         !["invite"] = MaxEach])
NextSession ==
    \/ \E r \in Slots : StartLogin(r)
    \/ \E r \in Slots : LoginLookup(r)
    \/ \E r \in Slots : LoginCompare(r)
    \/ \E r \in Slots : StartLogout(r)
    \/ \E r \in Slots : LogoutDestroy(r)
    \/ \E r \in Slots : StartOperator(r)
    \/ \E r \in Slots : OperatorLookup(r)
    \/ \E r \in Slots : OperatorUpdate(r)
    \/ \E r \in Slots : StartProbe(r)
    \/ \E r \in Slots : ProbeLookup(r)
    \/ \E r \in Slots : StartInvite(r)
    \/ \E r \in Slots : InviteLookup(r)
    \/ \E r \in Slots : InviteTx(r)
    \/ \E r \in Slots : InviteMail(r)
SpecSession == InitSession /\ [][NextSession]_vars

\* Logins against operators in every stage: unknown, invited, initialized.
InitLogin == InitWith([NoBudget EXCEPT !["login"] = MaxLogins, !["invite"] = MaxEach])
NextLogin ==
    \/ \E r \in Slots : StartLogin(r)
    \/ \E r \in Slots : LoginLookup(r)
    \/ \E r \in Slots : LoginCompare(r)
    \/ \E r \in Slots : StartInvite(r)
    \/ \E r \in Slots : InviteLookup(r)
    \/ \E r \in Slots : InviteTx(r)
    \/ \E r \in Slots : InviteMail(r)
SpecLogin == InitLogin /\ [][NextLogin]_vars

(***************************************************************************)
(* The validators on their own: the string is drawn at the start, one step *)
(* applies the validator and records what it returned.                     *)
(***************************************************************************)
Strings(alphabet, n) == UNION {[1..k -> alphabet] : k \in 0..n}
Repeat(c, n) == [i \in 1..n |-> c]

CoreAlphabet == {"a", "A", "1", "!", " ", "~"}
PadAlphabet == Special \cup {"a", "A", "1", " ", "~", "<", "|", "'"}
PasswordInputs ==
    Passwords \cup {core \o Repeat(c, n) : core \in Strings(CoreAlphabet, MaxCore),
                                           c \in PadAlphabet, n \in 0..MaxPad}

InitValidator(input) ==
    /\ budget = NoBudget
    /\ operators = {GenesisRow}
    /\ tokens = {}
    /\ sessions = {}
    /\ outbox = {}
    /\ issued = <<>>
    /\ reqs = [r \in Slots |-> IF r = 1 THEN input ELSE NoReq]
    /\ now = 0
    /\ nextId = [operators |-> 1, tokens |-> 1, sessions |-> 1]
    /\ faults = 0

Returned(r, result) ==
    /\ reqs' = [reqs EXCEPT ![r] = [@ EXCEPT !.pc = "done", !.resp.success = result]]
    /\ UNCHANGED <<operators, tokens, sessions, outbox, issued, now, nextId, budget, faults>>

ValidatePassword(r) ==
    /\ reqs[r].kind = "validatePassword" /\ reqs[r].pc = "call"
    /\ Returned(r, validatePassword(reqs[r].password))

InitPassword ==
    \E password \in PasswordInputs :
       InitValidator([NoReq EXCEPT !.kind = "validatePassword", !.pc = "call",
                                   !.password = password])
NextPassword == \E r \in Slots : ValidatePassword(r)
SpecPassword == InitPassword /\ [][NextPassword]_vars

\* A session growing older: login, the protected routes probe, operator and
\* logout, and the clock.
InitBearer == InitWith([NoBudget EXCEPT !["login"] = MaxEach,
                                        !["probe"] = MaxProbe,
                                        !["operator"] = MaxEach,
                                        !["logout"] = MaxEach,
                                        !["tick"] = MaxTime])
NextBearer ==
    \/ \E r \in Slots : StartLogin(r)
    \/ \E r \in Slots : LoginLookup(r)
    \/ \E r \in Slots : LoginCompare(r)
    \/ \E r \in Slots : StartProbe(r)
    \/ \E r \in Slots : ProbeLookup(r)
    \/ \E r \in Slots : StartOperator(r)
    \/ \E r \in Slots : OperatorLookup(r)
    \/ \E r \in Slots : OperatorUpdate(r)
    \/ \E r \in Slots : StartLogout(r)
    \/ \E r \in Slots : LogoutDestroy(r)
    \/ Tick
SpecBearer == InitBearer /\ [][NextBearer]_vars

\* A reset token and the routes that take a token, while time passes: forgot,
\* password, welcome, init and the clock.
InitStale == InitWith([NoBudget EXCEPT !["forgot"] = MaxEach,
                                       !["password"] = MaxEach,
                                       !["welcome"] = MaxWelcome,
                                       !["init"] = MaxInit,
                                       !["tick"] = MaxTime])
NextStale ==
    \/ \E r \in Slots : StartForgot(r)
    \/ \E r \in Slots : ForgotLookup(r)
    \/ \E r \in Slots : ForgotInsert(r)
    \/ \E r \in Slots : ForgotMail(r)
    \/ \E r \in Slots : StartPassword(r)
    \/ \E r \in Slots : PasswordLookup(r)
    \/ \E r \in Slots : PasswordTx(r)
    \/ \E r \in Slots : StartWelcome(r)
    \/ \E r \in Slots : WelcomeLookup(r)
    \/ \E r \in Slots : StartInit(r)
    \/ \E r \in Slots : InitLookupName(r)
    \/ \E r \in Slots : InitLookupToken(r)
    \/ \E r \in Slots : InitTx(r)
    \/ Tick
SpecStale == InitStale /\ [][NextStale]_vars

\* An invite token and the routes that take a token, while time passes: login,
\* invite, password, init and the clock.
InitAge == InitWith([NoBudget EXCEPT !["login"] = MaxEach,
                                     !["invite"] = MaxEach,
                                     !["password"] = MaxEach,
                                     !["init"] = MaxEach,
                                     !["tick"] = MaxTime])
NextAge ==
    \/ \E r \in Slots : StartLogin(r)
    \/ \E r \in Slots : LoginLookup(r)
    \/ \E r \in Slots : LoginCompare(r)
    \/ \E r \in Slots : StartInvite(r)
    \/ \E r \in Slots : InviteLookup(r)
    \/ \E r \in Slots : InviteTx(r)
    \/ \E r \in Slots : InviteMail(r)
    \/ \E r \in Slots : StartPassword(r)
    \/ \E r \in Slots : PasswordLookup(r)
    \/ \E r \in Slots : PasswordTx(r)
    \/ \E r \in Slots : StartInit(r)
    \/ \E r \in Slots : InitLookupName(r)
    \/ \E r \in Slots : InitLookupToken(r)
    \/ \E r \in Slots : InitTx(r)
    \/ Tick
SpecAge == InitAge /\ [][NextAge]_vars

\* Email addresses: a letter, the separators, a character the local part admits
\* and the domain does not, and one neither admits.
EmailAlphabet == {"a", "@", ".", "-", "!", " "}
EmailInputs == Strings(EmailAlphabet, MaxEmailLen)

\* validate(value) of deep-email-validator: the library looks the domain's mail
\* exchanger up and talks to it, so what it answers for a string is not fixed by
\* the string.
validate(value) == BOOLEAN
\* validEmail of services/validation_service.js: valid is validation.valid.
validEmail(value) == validate(value)

\* validateEmail of the validation module whose validEmail is isValidEmail.
ValidateEmail(r) ==
    /\ reqs[r].kind = "validateEmail" /\ reqs[r].pc = "call"
    /\ Returned(r, validateEmail(reqs[r].email))

\* validateEmail of services/validation_service.js, the module the controller
\* requires: true when validEmail resolved to valid.
ValidateEmailService(r) ==
    /\ reqs[r].kind = "validateEmailService" /\ reqs[r].pc = "call"
    /\ \E valid \in validEmail(reqs[r].email) : Returned(r, valid)

InitEmail ==
    \E email \in EmailInputs, kind \in {"validateEmail", "validateEmailService"} :
       InitValidator([NoReq EXCEPT !.kind = kind, !.pc = "call", !.email = email])
NextEmail == \E r \in Slots : ValidateEmail(r) \/ ValidateEmailService(r)
SpecEmail == InitEmail /\ [][NextEmail]_vars

(***************************************************************************)
(* Properties.                                                             *)
(***************************************************************************)
Done(r, kind) == reqs[r].kind = kind /\ reqs[r].pc = "done"
DbErrors == {DbError(1), DbError(2)}
TokenTimedOut == Error500(Msg("This token isn't valid. Tokens time out after an hour."))
RouteOf(token) == issued[token[2]].route

\* C1: an operator whose stored password hash is absent never authenticates: a
\* login that finds such a row is answered with the authentication failure (400,
\* "You shall not pass!"), inside the envelope, and no session holds such an
\* operator.
C1_AbsentHashNeverAuthenticates ==
    /\ \A r \in Slots :
          (Done(r, "login") /\ \E o \in reqs[r].row : o.password = Null)
             => reqs[r].resp = YouShallNotPass
    /\ \A s \in sessions : s.passport.user.password # Null

\* C1's case: a login found an operator without a password hash and was answered.
C1_Witness ==
    \E r \in Slots : Done(r, "login") /\ \E o \in reqs[r].row : o.password = Null

\* A finished resetPassword request that carried a valid password and whose
\* lookup met a stored row, made by forgot, with its token value.
ResetAnswered(r) ==
    /\ Done(r, "password")
    /\ validatePassword(reqs[r].password)
    /\ reqs[r].age >= 0
    /\ RouteOf(reqs[r].token) = "forgot"

\* C4 (as amended): resetPassword with a valid password succeeds if and only if
\* now - createdAt < 1 hour at the time of the lookup (a database fault aside);
\* at exactly 1 hour it fails with the timed-out answer.
C4_ResetSucceedsIffYoungerThanHour ==
    \A r \in Slots :
       ResetAnswered(r) =>
          IF reqs[r].age < Hour
          THEN reqs[r].resp.success \/ reqs[r].resp.message \in DbErrors
          ELSE reqs[r].resp = TokenTimedOut

\* C4's case: a reset whose token was exactly one hour old at the lookup.
C4_Witness ==
    \E r \in Slots : ResetAnswered(r) /\ reqs[r].age = Hour

\* C4 (as claimed): resetPassword succeeds if and only if now - createdAt <= 1
\* hour at the lookup, the instant of exactly 1 hour included.
C4_ResetSucceedsIffAtMostHour ==
    \A r \in Slots :
       ResetAnswered(r) =>
          IF reqs[r].age <= Hour
          THEN reqs[r].resp.success \/ reqs[r].resp.message \in DbErrors
          ELSE ~reqs[r].resp.success

RateLimited ==
    Error500(Msg("Take it easy! For your safety, only one password reset request per hour."))
CreatedAt(token) == (CHOOSE t \in tokens : t.token = token).created_at

\* C5: of the forgot requests for one operator that run concurrently within the
\* same hour exactly one inserts a token: no two of them are both past their
\* insert, waiting for the mail service, with rows less than an hour apart.
C5_ConcurrentForgotInsertsOnce ==
    \A r1, r2 \in Slots :
       (/\ r1 # r2
        /\ reqs[r1].kind = "forgot" /\ reqs[r1].pc = "mail"
        /\ reqs[r2].kind = "forgot" /\ reqs[r2].pc = "mail"
        /\ reqs[r1].row = reqs[r2].row)
       => \/ ~ \E t \in tokens : t.token = reqs[r1].token
          \/ ~ \E t \in tokens : t.token = reqs[r2].token
          \/ CreatedAt(reqs[r1].token) - CreatedAt(reqs[r2].token) >= Hour
          \/ CreatedAt(reqs[r2].token) - CreatedAt(reqs[r1].token) >= Hour

\* C6: in every reachable state each operator has at most one token created by
\* forgot (a second forgot within the hour is refused with the rate-limit
\* message and adds no row).
C6_OneResetTokenPerOperator ==
    \A o \in operators :
       Cardinality({t \in tokens : t._fk_operator = o._id /\ RouteOf(t.token) = "forgot"}) <= 1

\* C10: tokens are single-use: no two redemption requests (resetPassword or
\* initialize) carrying the same token are both answered with success.
C10_TokenRedeemedOnce ==
    \A r1, r2 \in Slots :
       (/\ r1 # r2
        /\ reqs[r1].kind \in {"password", "init"} /\ reqs[r1].pc = "done"
        /\ reqs[r2].kind \in {"password", "init"} /\ reqs[r2].pc = "done"
        /\ reqs[r1].token = reqs[r2].token)
       => ~(reqs[r1].resp.success /\ reqs[r2].resp.success)

\* C7: in every reachable state no two operator records have the same email.
C7_EmailUnique ==
    \A o1, o2 \in operators : o1.email = o2.email => o1 = o2

\* C8: in every reachable state no two initialized operators (operators with a
\* password) have the same display name.
C8_DisplayNameUnique ==
    \A o1, o2 \in operators :
       (o1.password # Null /\ o2.password # Null /\ o1.operator = o2.operator) => o1 = o2

\* What the transaction of request r writes when it commits, read in the state
\* after the step.
InviteWritten(r) ==
    \E o \in operators' \ operators :
       /\ o.email = reqs[r].email /\ o.operator = NewOperator /\ o.password = Null
       /\ \E t \in tokens' \ tokens :
             t._fk_operator = o._id /\ t.token = reqs'[r].token
       /\ operators' = operators \cup {o}
PasswordWritten(r) ==
    LET tokenRecord == CHOOSE t \in reqs[r].row : TRUE
    IN /\ \A o \in operators' :
             o._id = tokenRecord._fk_operator
                => o.password = BcryptHash(reqs[r].password, saltRounds)
       /\ \A t \in tokens' : t.token # tokenRecord.token
InitWritten(r) ==
    LET tokenRecord == CHOOSE t \in reqs[r].row : TRUE
    IN /\ \A o \in operators' :
             o._id = tokenRecord._fk_operator
                => /\ o.password = BcryptHash(reqs[r].password, saltRounds)
                   /\ o.operator = reqs[r].name
       /\ \A t \in tokens' : t.token # tokenRecord.token

\* C9: every multi-write operation is all-or-nothing: the step that runs the
\* transaction of invite, resetPassword or initialize either answers failure and
\* leaves operators and tokens exactly as they were, or applies both writes; no
\* step applies one of the two.
C9_TransactionsAllOrNothing ==
    [][\A r \in Slots :
         (reqs[r].pc = "tx" /\ reqs'[r].pc # "tx") =>
            IF reqs'[r].pc = "done" /\ ~reqs'[r].resp.success
            THEN operators' = operators /\ tokens' = tokens
            ELSE CASE reqs[r].kind = "invite" -> InviteWritten(r)
                   [] reqs[r].kind = "password" -> PasswordWritten(r)
                   [] reqs[r].kind = "init" -> InitWritten(r)]_vars

\* C9's case: the second write of a transaction failed, after the first had been
\* made, and the request was answered.
C9_Witness ==
    \E r \in Slots :
       /\ reqs[r].kind \in {"invite", "password", "init"}
       /\ reqs[r].pc = "done"
       /\ reqs[r].resp = Error500(DbError(2))

\* The step in which the transaction of the init request in slot r commits.
InitCommits(r) ==
    /\ reqs[r].kind = "init" /\ reqs[r].pc = "tx"
    /\ reqs'[r].pc = "done" /\ reqs'[r].resp.success
    /\ RouteOf(reqs[r].token) = "welcome"
\* A step of the request in slot r, its arrival included.
StepOf(r, kind) == reqs'[r].kind = kind /\ reqs'[r] # reqs[r]

\* C2 (as amended): for every token created by invite, welcome changes nothing
\* and one initialize with an available valid name and a valid password moves
\* the token's operator from the placeholder name with no password to the chosen
\* name with a hash of the password, after which the token is not retrievable; a
\* second initialize with the same token, arriving after the first has finished,
\* fails and changes nothing: with the invalid-invitation error when its name is
\* valid and not taken and its password valid, with the name error when it
\* repeats the name just chosen.
C2_InitializeOnceThenRefused ==
    [][\A r \in Slots :
         /\ StepOf(r, "welcome") => (operators' = operators /\ tokens' = tokens)
         /\ InitCommits(r) =>
               LET tokenRecord == CHOOSE t \in reqs[r].row : TRUE
               IN /\ \A o \in operators :
                        (/\ o._id = tokenRecord._fk_operator
                         /\ o.operator = NewOperator /\ o.password = Null)
                        => [o EXCEPT !.operator = reqs[r].name,
                                     !.password = BcryptHash(reqs[r].password, saltRounds)]
                              \in operators'
                  /\ \A t \in tokens' : t.token # reqs[r].token
         /\ (StepOf(r, "init") /\ reqs'[r].replay) =>
               /\ operators' = operators /\ tokens' = tokens
               /\ reqs'[r].pc = "done" =>
                     /\ ~reqs'[r].resp.success
                     /\ (/\ validateOperator(reqs'[r].name)
                         /\ validatePassword(reqs'[r].password)
                         /\ reqs'[r].resp \notin {NameTaken, Error500(DbError(1))})
                        => reqs'[r].resp = InvalidInvitation]_vars

\* C2's case: after an initialize had redeemed a token, a second initialize with
\* that token arrived and was answered with the invalid-invitation error.
C2_Witness ==
    \E r \in Slots :
       Done(r, "init") /\ reqs[r].replay /\ reqs[r].resp = InvalidInvitation

\* C2 (as claimed): a second initialize with the same token, run after the first
\* has finished, fails with the invalid-invitation error (here for a request
\* whose name and password are well-formed and that met no database fault).
C2_SecondInitializeIsInvalidInvitation ==
    \A r \in Slots :
       (/\ Done(r, "init") /\ reqs[r].replay
        /\ validateOperator(reqs[r].name) /\ validatePassword(reqs[r].password)
        /\ reqs[r].resp # Error500(DbError(1)))
       => reqs[r].resp = InvalidInvitation

\* Whether a login with these credentials would be authenticated in this state,
\* for every row the strategy's query may return.
LoginResults(email, password) ==
    {verify(found, password).user # {} : found \in getOperatorByEmail(email)}

\* C3: round trip: after invite(e), welcome(token) returns exactly e; after
\* initialize(token, name, password) then succeeds, a login with e and that
\* password succeeds and a login with e and any other password fails.
C3_InviteWelcomeInitLogin ==
    [][\A r \in Slots :
         /\ (/\ StepOf(r, "welcome") /\ reqs'[r].pc = "done" /\ reqs'[r].resp.success
             /\ RouteOf(reqs'[r].token) = "welcome")
            => reqs'[r].resp.message = issued[reqs'[r].token[2]].email
         /\ InitCommits(r) =>
               /\ LoginResults(issued[reqs[r].token[2]].email, reqs[r].password)' = {TRUE}
               /\ \A other \in Passwords \ {reqs[r].password} :
                     LoginResults(issued[reqs[r].token[2]].email, other)' = {FALSE}]_vars

\* The step in which a request of this kind arrives in slot r.
Arrives(r, kind) == StepOf(r, kind) /\ (reqs[r].kind # kind \/ reqs[r].pc = "done")

ProbeAnswers(name) ==
    {Json(200, TRUE, <<"Name ">> \o name \o <<" is available">>), NameTaken,
     Error500(DbError(1))}

C12_ProbeTaken == \E r \in Slots : Done(r, "probe") /\ reqs[r].resp = NameTaken
C12_ProbeError == \E r \in Slots : Done(r, "probe") /\ reqs[r].resp = Error500(DbError(1))

\* C13: every use-case ends every request with one response in the envelope
\* {success, message[, data]}: no failure path, the session-establishment error
\* in login included, is forwarded outside the envelope.
C13_EveryAnswerInEnvelope ==
    \A r \in Slots :
       reqs[r].pc = "done" =>
          /\ reqs[r].resp.envelope
          /\ {"success", "message"} \subseteq reqs[r].resp.keys

Protected == {"logout", "operator", "probe", "invite"}

\* C14: a request without an authenticated session to a protected route
\* (logout, operator, probe, invite) is answered with HTTP 403 and {status:403,
\* success:false, message, data:[]} and never reaches the controller, so it
\* changes no operator, token or session.
C14_ProtectedRoutesRejectUnauthenticated ==
    [][\A r \in Slots :
         /\ \A kind \in Protected :
               (Arrives(r, kind) /\ ~isAuthenticated(reqs'[r].sid)) =>
                  /\ reqs'[r].pc = "done"
                  /\ reqs'[r].resp.status = 403 /\ reqs'[r].resp.envelope
                  /\ reqs'[r].resp.keys = {"status", "success", "message", "data"}
                  /\ ~reqs'[r].resp.success /\ reqs'[r].resp.data = {}
                  /\ reqs'[r].resp.message = Msg("Unauthenticated. Please log in first")
                  /\ operators' = operators /\ tokens' = tokens /\ sessions' = sessions
         /\ (reqs'[r].kind \in Protected /\ reqs'[r].pc # "done") => reqs'[r].user # {}]_vars

\* C14's case: two requests to different protected routes, neither with an
\* authenticated session, have been answered.
C14_Witness ==
    \E r, q \in Slots :
       /\ reqs[r].kind \in Protected /\ reqs[q].kind \in Protected
       /\ reqs[r].kind # reqs[q].kind
       /\ reqs[r].resp.status = 403 /\ reqs[q].resp.status = 403
       /\ ~isAuthenticated(reqs[r].sid) /\ ~isAuthenticated(reqs[q].sid)

WellFormedEmails == {email \in Emails : validateEmail(email)}
\* A forgot with a well-formed email whose lookup ran and matched no operator.
ForgotMatchedNone(r) ==
    /\ Done(r, "forgot") /\ reqs[r].token = Token(0)
    /\ reqs[r].resp # Error500(DbError(1)) /\ reqs[r].email \in WellFormedEmails
\* A forgot for an existing operator whose token insert and mail send succeeded.
ForgotSent(r) == Done(r, "forgot") /\ reqs[r].mail = "ok"

ValidPasswords == {password \in Passwords : validatePassword(password)}
\* A password request with a valid password whose lookup ran, for a token value
\* that was never issued, and for one whose row was older than an hour.
ResetOfUnknownToken(r) ==
    /\ Done(r, "password") /\ reqs[r].token = Token(0)
    /\ reqs[r].resp # Error500(DbError(1)) /\ reqs[r].password \in ValidPasswords
ResetOfExpiredToken(r) ==
    /\ Done(r, "password") /\ reqs[r].age > Hour
    /\ reqs[r].resp # Error500(DbError(1)) /\ reqs[r].password \in ValidPasswords

\* C16: resetPassword with a valid password returns the identical failure
\* response for a token that never existed and for a token that exists but was
\* created more than one hour ago, and neither case changes state.
C16_ExpiredLooksLikeMissing ==
    [][\A r \in Slots :
         /\ (StepOf(r, "password") /\ (ResetOfUnknownToken(r)' \/ ResetOfExpiredToken(r)')) =>
               /\ operators' = operators /\ tokens' = tokens /\ sessions' = sessions
               /\ ~reqs'[r].resp.success
         /\ \A q \in Slots :
               (ResetOfUnknownToken(r)' /\ ResetOfExpiredToken(q)')
               => reqs'[r].resp = reqs'[q].resp]_vars

\* C16's case: a reset with a token that never existed and a reset with a token
\* older than an hour, whose row is still in the table, have both been answered.
C16_Witness ==
    \E r, q \in Slots :
       /\ ResetOfUnknownToken(r) /\ ResetOfExpiredToken(q)
       /\ \E t \in tokens : t.token = reqs[q].token

\* What the strategy told done() about the login in slot r.
LoginInfo(r) == verify(reqs[r].row, reqs[r].password).info
LoginFailures == {"Operator not found", "Password does not match", "Bcrypt error"}

\* C17: login returns the same failure response (same status and message)
\* whether the email matches no operator, the password does not match the stored
\* hash, or the operator has no password yet.
C17_LoginFailuresIndistinguishable ==
    \A r, q \in Slots :
       (/\ Done(r, "login") /\ Done(q, "login")
        /\ LoginInfo(r) \in LoginFailures /\ LoginInfo(q) \in LoginFailures)
       => /\ reqs[r].resp = reqs[q].resp
          /\ reqs[r].resp.status = 400 /\ ~reqs[r].resp.success
          /\ reqs[r].resp.message = Msg("You shall not pass!")

\* C17's case: a login for an operator without a password and a login of
\* another failing kind have both been answered.
C17_Witness ==
    \E r, q \in Slots :
       /\ Done(r, "login") /\ Done(q, "login")
       /\ LoginInfo(r) = "Bcrypt error"
       /\ LoginInfo(q) \in LoginFailures \ {"Bcrypt error"}

\* Reached as well: an unknown email next to a wrong password.
C17_NotFoundAndMismatch ==
    \E r, q \in Slots :
       /\ Done(r, "login") /\ Done(q, "login")
       /\ LoginInfo(r) = "Operator not found" /\ LoginInfo(q) = "Password does not match"

\* The columns of an operator record without its password hash.
TrimmedColumns == {"_id", "email", "operator"}

\* C18: after a successful login the principal stored in the session, and the
\* user object returned in the login response, equal the operator record without
\* its password hash: the hash is in no session payload and in no login response.
C18_NoPasswordHashInSessionOrResponse ==
    /\ \A s \in sessions : DOMAIN s.passport.user = TrimmedColumns
    /\ \A r \in Slots :
          (Done(r, "login") /\ reqs[r].resp.success)
          => \A user \in reqs[r].resp.data : DOMAIN user = TrimmedColumns

\* C19: after every successful login the bearer claim attached to the session
\* carries the id of the operator that logged in (the record's primary key) and
\* expires within the hour after the login; two different operators never
\* receive claims carrying the same identity value.
C19_BearerClaimCarriesOperatorId ==
    /\ \A s \in sessions :
          /\ s.token.payload.userId = {s.passport.user._id}
          /\ s.token.exp <= now + Hour
    /\ \A s, t \in sessions :
          s.passport.user._id # t.passport.user._id
          => s.token.payload.userId # t.token.payload.userId

\* C20: mail outcome asymmetry: when the mail transport returns a non-success
\* response, forgot answers with success:false carrying the transport's status
\* and error message, whereas invite answers success whenever its transaction
\* committed and the transport returned any response, success or not.
C20_MailOutcomeAsymmetry ==
    \A r \in Slots :
       /\ (Done(r, "forgot") /\ reqs[r].mail = "notok") =>
             /\ ~reqs[r].resp.success
             /\ reqs[r].resp.status = TransportError.status
             /\ reqs[r].resp.message = TransportError.error
       /\ (Done(r, "invite") /\ reqs[r].mail \in {"ok", "notok"}) =>
             /\ reqs[r].resp.success /\ reqs[r].resp.status = 200
       /\ (Done(r, "invite") /\ reqs[r].resp.success) =>
             /\ reqs[r].mail \in {"ok", "notok"}
             /\ RouteOf(reqs[r].token) = "welcome"
             /\ \E m \in outbox : m.to = reqs[r].email /\ m.token = reqs[r].token

\* C20's case: an invite whose transaction committed and whose mail the
\* transport refused has been answered.
C20_Witness ==
    \E r \in Slots : Done(r, "invite") /\ reqs[r].mail = "notok"

\* Reached as well: a forgot whose mail the transport refused.
C20_ForgotRefused == \E r \in Slots : Done(r, "forgot") /\ reqs[r].mail = "notok"

\* The password rule as the claim words it.
ClaimedSpecial == {"!", "@", "#", "$", "%", "^", "&", "*", "(", ")", "_", "+", "-", "=",
                   "[", "]", "{", "}", ";", ":", ",", ".", "?"}
CharsOf(s) == {s[i] : i \in DOMAIN s}
PasswordRule(p) ==
    /\ CharsOf(p) \cap Lower # {} /\ CharsOf(p) \cap Upper # {}
    /\ CharsOf(p) \cap Digit # {} /\ CharsOf(p) \cap ClaimedSpecial # {}
    /\ CharsOf(p) \subseteq Lower \cup Upper \cup Digit \cup {" "} \cup ClaimedSpecial
    /\ Len(p) \in 8..20

\* C21: validatePassword(p) returns true exactly when p contains a lowercase
\* letter, an uppercase letter, a digit, a character of the special set, only
\* letters, digits, space and that set, and has length 8 to 20 inclusive; "weak"
\* is rejected and "Abcdef1!" is accepted.
C21_ValidatePasswordRule ==
    \A r \in Slots :
       Done(r, "validatePassword") =>
          /\ reqs[r].resp.success = PasswordRule(reqs[r].password)
          /\ reqs[r].password = PasswordWeak => ~reqs[r].resp.success
          /\ reqs[r].password = PasswordA => reqs[r].resp.success

\* C21's case: a password of 20 characters has been accepted.
C21_Witness ==
    \E r \in Slots :
       /\ Done(r, "validatePassword") /\ reqs[r].resp.success
       /\ Len(reqs[r].password) = 20

\* Structural validity as the claim words it: an "@" separates a non-empty local
\* part from the domain, that is, the local part is all that precedes it and the
\* domain all that follows it.
StructurallyValid(e) ==
    \E i \in IndexesOf(e, "@") :
       LET localPart == SubSeq(e, 1, i - 1)
           domainPart == SubSeq(e, i + 1, Len(e))
       IN /\ Len(localPart) > 0
          /\ Includes(domainPart, ".")
          /\ Len(TldOf(domainPart)) >= 2
          /\ ~ \E j \in 1..(Len(domainPart) - 1) : domainPart[j] = "." /\ domainPart[j + 1] = "."
          /\ domainPart[1] # "-" /\ domainPart[Len(domainPart)] # "-"
          /\ CharsOf(localPart) \subseteq LocalPartChars
          /\ CharsOf(domainPart) \subseteq DomainPartChars

\* C22: validateEmail(e) returns true exactly when e is structurally valid (an
\* "@" between a non-empty local part and a domain that contains a dot, ends in a
\* label of at least 2 characters, has no consecutive dots and neither starts nor
\* ends with a hyphen, both parts within their character classes), and the
\* result depends on the string alone.
C22_ValidateEmailStructural ==
    \A r \in Slots :
       (Done(r, "validateEmail") \/ Done(r, "validateEmailService"))
          => reqs[r].resp.success = StructurallyValid(reqs[r].email)

\* C22 for the module without the library call alone: what it returns is the
\* structural validity of the whole string.
C22_PureValidateEmailStructural ==
    \A r \in Slots :
       Done(r, "validateEmail") => reqs[r].resp.success = StructurallyValid(reqs[r].email)

ValidNames == {name \in Names : validateOperator(name)}
NotAValidName == Error500(Msg("That's not a valid name."))
NotAValidPassword == Error500(Msg("That's not a valid password."))
\* The name of the init request in slot r is held by an operator / its token is
\* in the tokens table.
InitNameHeld(r) == \E o \in operators : o.operator = reqs[r].name
InitTokenStored(r) == \E t \in tokens : t.token = reqs[r].token
\* The init request in slot r leaves the name check / the password and token
\* check in this step without a database error.
InitChecksName(r) ==
    /\ reqs[r].kind = "init" /\ reqs[r].pc = "lookupName" /\ reqs'[r].pc # "lookupName"
    /\ reqs'[r].resp # Error500(DbError(1))
InitChecksPasswordAndToken(r) ==
    /\ reqs[r].kind = "init" /\ reqs[r].pc = "lookupToken" /\ reqs'[r].pc # "lookupToken"
    /\ reqs'[r].resp # Error500(DbError(1))

\* C23: initialize checks the name, then the password, then the token, and stops
\* at the first failure: with an invalid or taken name it answers the name error
\* whatever password and token are, with an acceptable name and an invalid
\* password the password error whatever the token is, and the invalid-invitation
\* error only when name and password both passed (database errors aside).
C23_InitializeCheckOrder ==
    [][\A r \in Slots :
          /\ InitChecksName(r) =>
                IF reqs[r].name \notin ValidNames
                THEN reqs'[r].pc = "done" /\ reqs'[r].resp = NotAValidName
                ELSE IF InitNameHeld(r)
                     THEN reqs'[r].pc = "done" /\ reqs'[r].resp = NameTaken
                     ELSE reqs'[r].pc = "lookupToken"
          /\ InitChecksPasswordAndToken(r) =>
                IF reqs[r].password \notin ValidPasswords
                THEN reqs'[r].pc = "done" /\ reqs'[r].resp = NotAValidPassword
                ELSE IF ~InitTokenStored(r)
                     THEN reqs'[r].pc = "done" /\ reqs'[r].resp = InvalidInvitation
                     ELSE reqs'[r].pc = "tx"
          /\ (reqs[r].kind = "init" /\ reqs[r].pc = "tx") =>
                reqs[r].name \in ValidNames /\ reqs[r].password \in ValidPasswords]_vars

\* C23's case: an initialize whose name is taken, whose password is invalid and
\* whose token is not stored was answered with the name error.
C23_Witness ==
    \E r \in Slots :
       /\ Done(r, "init") /\ reqs[r].resp = NameTaken
       /\ reqs[r].password \notin ValidPasswords /\ ~InitTokenStored(r)

\* The email of the invite request in slot r is held by an operator.
InviteEmailHeld(r) == \E o \in operators : o.email = reqs[r].email
\* The invite request in slot r takes the step that validates the email and
\* looks the operator up / that runs setInviteToken.
InviteChecks(r) ==
    /\ reqs[r].kind = "invite" /\ reqs[r].pc = "lookup" /\ reqs'[r].pc # "lookup"
InviteInserts(r) ==
    /\ reqs[r].kind = "invite" /\ reqs[r].pc = "tx" /\ reqs'[r].pc # "tx"

\* C24: invite fails when the email is invalid or an operator with that email
\* exists (invited or initialized) when it is looked up, and then inserts no
\* operator, inserts no token and requests no mail; only otherwise does it go on
\* to insert, and what it inserts is exactly one new operator with the
\* placeholder name and no password and exactly one token referencing it.
C24_InviteFailsOrCreatesOne ==
    [][\A r \in Slots :
          /\ InviteChecks(r) =>
                /\ (reqs[r].email \notin WellFormedEmails \/ InviteEmailHeld(r))
                      => /\ reqs'[r].pc = "done" /\ ~reqs'[r].resp.success
                         /\ reqs'[r].token = Token(0)
                /\ reqs'[r].pc = "tx"
                      => reqs[r].email \in WellFormedEmails /\ ~InviteEmailHeld(r)
                /\ UNCHANGED <<operators, tokens, outbox, issued>>
          /\ InviteInserts(r) =>
                \/ /\ reqs'[r].pc = "done" /\ ~reqs'[r].resp.success
                   /\ UNCHANGED <<operators, tokens, outbox>>
                \/ /\ reqs'[r].pc = "mail"
                   /\ InviteWritten(r)
                   /\ Cardinality(operators' \ operators) = 1
                   /\ Cardinality(tokens' \ tokens) = 1
                   /\ operators \subseteq operators' /\ tokens \subseteq tokens'
          /\ (reqs[r].kind # "invite" /\ reqs'[r].kind = "invite")
                => UNCHANGED <<operators, tokens, outbox>>]_vars

\* C24's case: an invite for the email of an operator who was invited and has
\* not initialized was answered that the operator has already joined, and one
\* operator besides the genesis operator is stored, with one token.
C24_Witness ==
    \E r \in Slots :
       /\ Done(r, "invite") /\ reqs[r].resp = AlreadyJoined
       /\ \E o \in operators : o.email = reqs[r].email /\ o.password = Null
       /\ Cardinality(operators) = 2 /\ Cardinality(tokens) = 1

\* C25: forgot creates a reset token only for an operator that is initialized:
\* every stored token that forgot created references an operator with a
\* password, and no forgot for the email of an invited operator who has not
\* initialized goes on to the insert.
C25_ForgotOnlyForInitialized ==
    /\ \A t \in tokens :
          RouteOf(t.token) = "forgot"
             => \A o \in operators : o._id = t._fk_operator => o.password # Null
    /\ \A r \in Slots :
          (reqs[r].kind = "forgot" /\ reqs[r].pc \in {"insert", "mail"})
             => \A o \in reqs[r].row : o.password # Null

\* token is the value of a stored token that forgot created more than an hour
\* ago / is the value of a stored token that invite created.
StaleForgotToken(token) ==
    \E t \in tokens :
       t.token = token /\ RouteOf(token) = "forgot" /\ now - t.created_at > Hour
StoredInviteToken(token) ==
    \E t \in tokens : t.token = token /\ RouteOf(token) = "welcome"
\* The request in slot r, of this kind and at this position, takes a step.
Steps(r, kind, pc) ==
    reqs[r].kind = kind /\ reqs[r].pc = pc /\ reqs'[r] # reqs[r]

\* C26: a token created by forgot that is older than one hour can no longer
\* change anything: resetPassword, initialize and welcome given that token do
\* not succeed, and no operator's password or name changes.
C26_StaleResetTokenIsDead ==
    [][\A r \in Slots :
          /\ (Steps(r, "password", "lookup") /\ StaleForgotToken(reqs[r].token))
                => reqs'[r].pc = "done" /\ ~reqs'[r].resp.success
          /\ (Steps(r, "init", "lookupToken") /\ StaleForgotToken(reqs[r].token))
                => reqs'[r].pc = "done" /\ ~reqs'[r].resp.success
          /\ (Steps(r, "welcome", "lookup") /\ StaleForgotToken(reqs[r].token))
                => reqs'[r].pc = "done" /\ ~reqs'[r].resp.success
          /\ ((Steps(r, "password", "tx") \/ Steps(r, "init", "tx"))
                 /\ StaleForgotToken(reqs[r].token))
                => operators' = operators]_vars

\* C26 for resetPassword alone.
C26_StaleResetTokenResetsNothing ==
    [][\A r \in Slots :
          (Steps(r, "password", "lookup") /\ StaleForgotToken(reqs[r].token))
             => reqs'[r].pc = "done" /\ ~reqs'[r].resp.success]_vars

\* The operator the init request in slot r is about to update (reqs[r].row holds
\* the token record it found).
InitTarget(r) ==
    {o \in operators : \E t \in reqs[r].row : o._id = t._fk_operator}

\* C27: initialize succeeds only on an operator in the invited state: whenever
\* it answers success, the operator it updated had no password and the
\* placeholder name immediately before.
C27_InitializeOnlyInvited ==
    [][\A r \in Slots :
          (Steps(r, "init", "tx") /\ reqs'[r].resp.success)
             => \A o \in InitTarget(r) : o.password = Null /\ o.operator = NewOperator]_vars

\* An invite token is deleted in this step.
InviteTokenDeleted == \E t \in tokens \ tokens' : RouteOf(t.token) = "welcome"

\* C28, its first half: an invite token never expires by time: initialize given
\* a stored invite token, a valid password and an available valid name goes on
\* to the update whatever the token's age (database errors aside).
C28_InviteTokenNeverExpires ==
    [][\A r \in Slots :
          (/\ Steps(r, "init", "lookupToken") /\ StoredInviteToken(reqs[r].token)
           /\ reqs[r].password \in ValidPasswords
           /\ reqs'[r].resp # Error500(DbError(1)))
             => reqs'[r].pc = "tx"]_vars

\* C28: an invite token never expires by time and is usable only for
\* initialization: initialize with it goes through at any age, it stays in the
\* token table until a successful initialize deletes it, and resetPassword given
\* an invite token never succeeds.
C28_InviteTokenOnlyInitializes ==
    [][/\ \A r \in Slots :
             /\ (/\ Steps(r, "init", "lookupToken") /\ StoredInviteToken(reqs[r].token)
                 /\ reqs[r].password \in ValidPasswords
                 /\ reqs'[r].resp # Error500(DbError(1)))
                   => reqs'[r].pc = "tx"
             /\ (Steps(r, "password", "lookup") /\ StoredInviteToken(reqs[r].token))
                   => reqs'[r].pc = "done" /\ ~reqs'[r].resp.success
       /\ InviteTokenDeleted
             => \E r \in Slots : Steps(r, "init", "tx") /\ reqs'[r].resp.success]_vars

\* Reached: an initialize with an invite token older than an hour succeeded.
C28_OldInviteTokenInitialized ==
    \E r \in Slots :
       /\ Done(r, "init") /\ reqs[r].resp.success
       /\ RouteOf(reqs[r].token) = "welcome" /\ now > Hour
       /\ \E o \in operators : o.operator = reqs[r].name /\ o.email = EmailA

\* The reset tokens of the operator the forgot request in slot r found, and
\* those of them created within the last hour.
ResetTokensOf(r) ==
    {t \in tokens : /\ \E o \in reqs[r].row : t._fk_operator = o._id
                    /\ RouteOf(t.token) = "forgot"}
RecentResetTokensOf(r) == {t \in ResetTokensOf(r) : now - t.created_at <= Hour}

\* C29: the rate limit covers only the window: forgot answers with the
\* rate-limit signal only if the operator has a reset token created within the
\* last hour, and once more than one hour has passed since the operator's last
\* reset token was created a new forgot inserts a token again, although the
\* expired token is still stored (a database error aside).
C29_RateLimitOnlyWithinWindow ==
    [][\A r \in Slots :
          Steps(r, "forgot", "insert") =>
             /\ reqs'[r].resp = RateLimited => RecentResetTokensOf(r) # {}
             /\ (RecentResetTokensOf(r) = {} /\ reqs'[r].resp # Error500(DbError(1)))
                   => /\ reqs'[r].pc = "mail"
                      /\ \E t \in tokens' \ tokens :
                            /\ t.token = reqs'[r].token /\ t.created_at = now
                            /\ \E o \in reqs[r].row : t._fk_operator = o._id
                      /\ tokens \subseteq tokens']_vars

\* C29's case: a forgot has inserted a token for an operator whose earlier reset
\* token, older than one hour, is still stored.
C29_Witness ==
    \E r \in Slots :
       /\ reqs[r].kind = "forgot" /\ reqs[r].pc = "mail"
       /\ \E t \in tokens : t.token = reqs[r].token /\ t.created_at = now
       /\ \E t \in ResetTokensOf(r) : now - t.created_at > Hour

\* The forgot or invite request in slot r is finished and its mail was refused
\* by the transport or the call threw.
MailFailed(r) ==
    /\ (Done(r, "forgot") \/ Done(r, "invite"))
    /\ reqs[r].mail \in {"notok", "throw"}

\* C30: a mail failure never undoes a committed token: the step that sends the
\* mail of forgot or invite leaves operators and tokens as they are whatever the
\* outcome, and after a refused or thrown send the token is stored until it is
\* redeemed (and, for invite, the operator is stored), although forgot, and
\* invite when the send threw, reported failure.
C30_MailFailureKeepsToken ==
    /\ [][\A r \in Slots :
             (Steps(r, "forgot", "mail") \/ Steps(r, "invite", "mail"))
                => UNCHANGED <<operators, tokens>>]_vars
    /\ [](\A r \in Slots :
             MailFailed(r) =>
                /\ \/ \E t \in tokens : t.token = reqs[r].token
                   \/ issued[reqs[r].token[2]].redeemed # "no"
                /\ \E o \in operators : o.email = reqs[r].email
                /\ (reqs[r].kind = "forgot" \/ reqs[r].mail = "throw")
                      => ~reqs[r].resp.success)

\* C30's case: the mail of a forgot was refused or threw, the request reported
\* failure, and its token has been redeemed by a resetPassword since.
C30_Witness ==
    \E r \in Slots :
       /\ MailFailed(r) /\ reqs[r].kind = "forgot" /\ ~reqs[r].resp.success
       /\ issued[reqs[r].token[2]].redeemed = "password"

\* The name of the request in slot r is held by an operator.
NameHeld(r) == \E o \in operators : o.operator = reqs[r].name
\* The operators table after the operator with this _id took this name.
Renamed(id, name) ==
    {IF o._id = id THEN [o EXCEPT !.operator = name] ELSE o : o \in operators}

\* C31: rename by an authenticated operator succeeds only if the name has
\* length 5 to 20 and no operator has that name when it is looked up; on success
\* it changes the display name of exactly the calling operator and nothing else
\* (no other operator, no email, no password, no token, no session); on failure
\* it changes nothing.
C31_RenameChangesOnlyCallersName ==
    [][\A r \in Slots :
          /\ Steps(r, "operator", "lookup") =>
                /\ UNCHANGED <<operators, tokens, sessions>>
                /\ (reqs[r].name \notin ValidNames \/ NameHeld(r))
                      => reqs'[r].pc = "done" /\ ~reqs'[r].resp.success
                /\ reqs'[r].pc = "update"
                      => /\ Len(reqs[r].name) \in 5..20 /\ ~NameHeld(r)
                         /\ reqs[r].user # {}
          /\ Steps(r, "operator", "update") =>
                /\ UNCHANGED <<tokens, sessions>>
                /\ reqs'[r].pc = "done"
                /\ IF reqs'[r].resp.success
                   THEN \E user \in reqs[r].user :
                           /\ \E o \in operators : o._id = user._id
                           /\ operators' = Renamed(user._id, reqs[r].name)
                   ELSE operators' = operators
          /\ (reqs[r].kind # "operator" /\ reqs'[r].kind = "operator")
                => /\ UNCHANGED <<operators, tokens, sessions>>
                   /\ ~reqs'[r].resp.success]_vars

\* C31's case: a rename has succeeded while a second operator is stored: the
\* caller has the new name, the other operator still the placeholder name.
C31_Witness ==
    \E r \in Slots :
       /\ Done(r, "operator") /\ reqs[r].resp.success
       /\ \E user \in reqs[r].user :
             \E o \in operators : o._id = user._id /\ o.operator = reqs[r].name
       /\ \E o \in operators : o.operator = NewOperator /\ o.password = Null

\* The routes that are neither login nor logout.
NoSessionRoutes == {"operator", "password", "init", "invite", "forgot"}

\* C32: a session holds the login-time snapshot of its operator: no step of
\* rename, resetPassword, initialize, invite or forgot creates, modifies or
\* destroys a session, so every session opened earlier is still authenticated
\* and still carries the principal and the bearer claim stored at login.
C32_SessionIsLoginSnapshot ==
    [][\A r \in Slots :
          (reqs'[r] # reqs[r] /\ reqs'[r].kind \in NoSessionRoutes)
             => /\ sessions' = sessions
                /\ \A s \in sessions :
                      /\ isAuthenticated(s.sid)'
                      /\ deserializeUser(s.sid)' = {s.passport.user}]_vars

\* C32's case: after a successful rename the caller's session is still
\* authenticated and still carries the name the operator had at login, while the
\* operators table has the new one.
C32_Witness ==
    \E r \in Slots :
       /\ Done(r, "operator") /\ reqs[r].resp.success
       /\ \E s \in sessions :
             /\ s.sid = reqs[r].sid /\ isAuthenticated(s.sid)
             /\ s.passport.user.operator # reqs[r].name
             /\ \E o \in operators :
                   o._id = s.passport.user._id /\ o.operator = reqs[r].name

\* The session with this id was established and is no longer stored.
Destroyed(sid) == sid \in Cookies \ {0} /\ ~isAuthenticated(sid)

RedemptionRejected(r) ==
    /\ reqs[r].kind \in {"password", "init"} /\ reqs[r].pc # "done"
    /\ reqs'[r].kind = reqs[r].kind /\ reqs'[r].pc = "done" /\ ~reqs'[r].resp.success

\* C34: a rejected redemption consumes nothing: when resetPassword fails
\* (invalid password, unknown or expired token) or initialize fails (invalid or
\* taken name, invalid password, unknown token), the token table and every
\* operator record are unchanged, so a token the request carried is still stored
\* if it was before.
C34_RejectedRedemptionConsumesNothing ==
    [][\A r \in Slots : RedemptionRejected(r) => UNCHANGED <<operators, tokens>>]_vars

\* C34's case: an initialize was refused for its password while its token was
\* stored, a resetPassword was refused for a token older than one hour, and both
\* tokens are still stored.
C34_Witness ==
    \E r, q \in Slots :
       /\ Done(r, "init") /\ reqs[r].resp = NotAValidPassword /\ InitTokenStored(r)
       /\ Done(q, "password") /\ reqs[q].resp = TokenTimedOut
       /\ StaleForgotToken(reqs[q].token)

\* C35: in every reachable state every operator that has no password has at
\* least one token referencing it: no sequence or interleaving of invite, forgot,
\* resetPassword, initialize and rename removes the last token of a passwordless
\* operator without setting its password.
C35_PasswordlessOperatorHasToken ==
    \A o \in operators :
       o.password = Null => \E t \in tokens : t._fk_operator = o._id

\* C35's case: the token of an invited operator has been redeemed and deleted,
\* no token references that operator any more, and the operator has a password.
C35_Witness ==
    \E n \in 1..Len(issued) :
       /\ issued[n].route = "welcome" /\ issued[n].redeemed # "no"
       /\ \A t \in tokens : t.token # Token(n)
       /\ \E o \in operators :
             /\ o.email = issued[n].email /\ o._id # GenesisRow._id
             /\ o.password # Null
             /\ \A t \in tokens : t._fk_operator # o._id

\* C36: an operator's state only moves forward: in every step every operator
\* is still stored afterwards under its _id with the email it had, and with a
\* password if it had one.
C36_OperatorOnlyMovesForward ==
    [][\A o \in operators :
          \E after \in operators' :
             /\ after._id = o._id /\ after.email = o.email
             /\ o.password # Null => after.password # Null]_vars

\* C36's case: the genesis operator's password has been replaced and the invited
\* operator has been given one; both are stored with the email they had.
C36_Witness ==
    /\ \E o \in operators :
          /\ o._id = GenesisRow._id /\ o.email = GenesisEmail
          /\ o.password \notin {Null, GenesisRow.password}
    /\ \E o \in operators :
          o._id # GenesisRow._id /\ o.email = EmailA /\ o.password # Null

\* C37: the bearer claim is written to the session once, at login, and never
\* reissued, while the session lives up to one day: every session keeps the
\* claim and the expiry it got at login, a request on a stored, unexpired session
\* is let through to a protected route whatever the age of its bearer claim, and
\* so a session is authenticated on protected routes after its bearer claim (1
\* hour) has expired.
C37_SessionOutlivesBearerClaim ==
    [][/\ \A s \in sessions : \A t \in sessions' :
             t.sid = s.sid => t.token = s.token /\ t.expired = s.expired
       /\ \A t \in sessions' \ sessions :
             /\ \E r \in Slots : Steps(r, "login", "compare")
             /\ t.token.iat = now /\ t.token.exp = now + Hour
             /\ t.expired = now + oneDay
       /\ \A r \in Slots : \A kind \in Protected :
             (Arrives(r, kind)
                 /\ \E s \in sessions : s.sid = reqs'[r].sid /\ now < s.expired)
                => reqs'[r].pc # "done" /\ reqs'[r].user # {}]_vars

\* C37's case: a probe that arrived on a session whose bearer claim was older
\* than one hour was let through and answered by the controller, and the session
\* is still authenticated.
C37_Witness ==
    \E r \in Slots :
       /\ Done(r, "probe") /\ reqs[r].user # {} /\ reqs[r].resp.status # 403
       /\ reqs[r].age > Hour
       /\ \E s \in sessions :
             s.sid = reqs[r].sid /\ jwtExpired(s.token) /\ isAuthenticated(s.sid)

====
